---- MODULE Spec2Model ----
(***************************************************************************)
(* Model of three InstrumentKit drivers:                                   *)
(*   Keithley775A   (src/instruments/keithley/keithley775a.py)             *)
(*   Wavetek39A     (src/instruments/wavetek/wavetek39a.py)                *)
(*   NewportESP301  (src/python/src/instruments/other/newportesp301.py)    *)
(*                                                                         *)
(* Text is modelled at character level: a Python str is a sequence of      *)
(* one-character strings.  A Python value is a record [type, value] whose  *)
(* value is always an integer (an enum ordinal, a bool as 0/1, an index    *)
(* into a name table, a fixed-point magnitude).                            *)
(* Every driver call is one action; it leaves in `tx` the transmissions    *)
(* the call performed, in `last` which call it was and how it ended, and   *)
(* in `ret` the value it returned.                                         *)
(***************************************************************************)
EXTENDS Integers, Sequences, FiniteSets, TLC

VARIABLES
    inst,       \* the driver instance of this session
    pc,         \* "new" before construction, "ready", "failed"; "start"/"done" in the single-call specifications
    input,      \* the text the transport delivers in the single-call specifications
    last,       \* [op, param, exc]: the last call and the exception it ended with
    arg,        \* the argument of the last call
    ret,        \* the value the last call returned
    tx,         \* the transmissions of the last call, in order
    calls,      \* the number of calls made in this session
    kdev,       \* Keithley: the instrument's operating-mode status word
    kunit,      \* Keithley: self.unit
    kdc,        \* Keithley: self.dc, the data-control selection
    kfile,      \* Keithley: the kind of communicator behind self._file
    kdevdc,     \* Keithley: the data-control mode (B0..B4) the instrument is in
    kset,       \* Keithley: per status field, the value last set through its setter
    nimm,       \* Newport: self._execute_immediately
    ncmds,      \* Newport: self._command_list
    nhandles,   \* Newport: the axis handles handed out, [axis_id, units], by identity
    ndict,      \* Newport: _axisDict of the _AxisList of the last controller.axis
    nbuilt,     \* Newport: NewportESP301Axis constructions begun by the last call
    naccess,    \* Newport: per index, the handles successive controller.axis[i] returned
    ndevunit,   \* Newport: the unit code the device holds for each axis
    ncheck,     \* Newport: [code, exc] of the error check of the last call
    nself,      \* Newport: the handle the last call was a method of (0: none)
    nblock      \* Newport: the with-block the program is in

kvars == <<kdev, kunit, kdc, kfile, kdevdc, kset>>

nvars == <<nimm, ncmds, nhandles, ndict, nbuilt, naccess, ndevunit, ncheck, nself, nblock>>

vars == <<inst, pc, input, last, arg, ret, tx, calls, kvars, nvars>>

----------------------------------------------------------------------------
(* Python values and text *)

V(t, v) == [type |-> t, value |-> v]

NoValue == V("None", 0)

NoCall == [op |-> "none", param |-> "none", exc |-> "none"]

Call(op, param, exc) == [op |-> op, param |-> param, exc |-> exc]

Send(cmd) == [kind |-> "send", cmd |-> cmd]

Query(cmd) == [kind |-> "query", cmd |-> cmd]

DigitChars == <<"0", "1", "2", "3", "4", "5", "6", "7", "8", "9">>

IsDigit(c) == \E i \in 1..10 : DigitChars[i] = c

DigitVal(c) == (CHOOSE i \in 1..10 : DigitChars[i] = c) - 1

RECURSIVE NatStr(_)
NatStr(n) ==
    IF n < 10 THEN <<DigitChars[n + 1]>>
    ELSE NatStr(n \div 10) \o <<DigitChars[(n % 10) + 1]>>

\* str(n) / '{}'.format(n) of a Python int
IntStr(n) == IF n < 0 THEN <<"-">> \o NatStr(0 - n) ELSE NatStr(n)

\* '{}'.format(newval) of an int argument; a bool formats as its name
FormatInt(newval) ==
    IF newval.type = "bool"
    THEN (IF newval.value = 1 THEN <<"T", "r", "u", "e">> ELSE <<"F", "a", "l", "s", "e">>)
    ELSE IntStr(newval.value)

RECURSIVE DigitsVal(_)
DigitsVal(s) ==
    IF Len(s) = 0 THEN 0
    ELSE 10 * DigitsVal(SubSeq(s, 1, Len(s) - 1)) + DigitVal(s[Len(s)])

AllDigits(s) == Len(s) > 0 /\ \A i \in 1..Len(s) : IsDigit(s[i])

\* int(s) of a Python str: [ok, val]; not ok is ValueError
PyInt(s) ==
    IF AllDigits(s) THEN [ok |-> TRUE, val |-> DigitsVal(s)]
    ELSE IF Len(s) > 1 /\ s[1] = "-" /\ AllDigits(Tail(s))
         THEN [ok |-> TRUE, val |-> 0 - DigitsVal(Tail(s))]
    ELSE IF Len(s) > 1 /\ s[1] = "+" /\ AllDigits(Tail(s))
         THEN [ok |-> TRUE, val |-> DigitsVal(Tail(s))]
    ELSE [ok |-> FALSE, val |-> 0]

Min(a, b) == IF a < b THEN a ELSE b

Max(a, b) == IF a > b THEN a ELSE b

\* s[a:b] with 0 <= a <= b (Python slice: clipped, never raises)
Slice(s, a, b) == SubSeq(s, Min(a, Len(s)) + 1, Min(b, Len(s)))

\* s[a:]
SliceFrom(s, a) == SubSeq(s, Min(a, Len(s)) + 1, Len(s))

\* s[-n:]
SliceLast(s, n) == SubSeq(s, Max(Len(s) - n, 0) + 1, Len(s))

----------------------------------------------------------------------------
(* Keithley775A: enums *)

EnumMembers(t) ==
    CASE t = "Mode" -> 0..7
      [] t = "Coupling" -> 0..1
      [] t = "Attenuator" -> 0..1
      [] t = "Slope" -> 0..1
      [] t = "Rate" -> 0..3
      [] t = "Terminator" -> 0..4
      [] t = "DisplayMode" -> 0..5
      [] t = "DataFormat" -> 0..3
      [] t = "Totalize" -> 0..1
      [] t = "DataControl" -> 0..4
      [] OTHER -> {}

\* isinstance(newval, Keithley775A.<t>)
IsEnum(newval, t) == newval.type = t /\ newval.value \in EnumMembers(t)

\* isinstance(newval, int): a bool is an int
IsInt(newval) == newval.type \in {"int", "bool"}

IsBool(newval) == newval.type = "bool"

\* Mode member names, in ordinal order (Mode[name] is its index - 1)
ModeNames ==
    <<"frequency_A", "frequency_B", "period_A", "period_average_A",
      "time_interval_A_to_B", "pulse_A", "frequency_C", "totalize_A">>

\* the str arguments of the model: the Mode names, then a name of no member
StrTable == ModeNames \o <<"bogus">>

----------------------------------------------------------------------------
(* Quantities and float formatting.  A float or a quantity magnitude is a   *)
(* fixed-point integer counting millionths; the type of a quantity names    *)
(* its unit: Quantity_s, Quantity_ms, Quantity_V.                           *)

Micro == 1000000

IsQuantity(newval) == newval.type \in {"Quantity_s", "Quantity_ms", "Quantity_V"}

\* value.rescale('s'): [exc, micro]; a number or str has no rescale
\* (AttributeError), a voltage does not convert (ValueError)
RescaleS(newval) ==
    CASE newval.type = "Quantity_s" -> [exc |-> "none", micro |-> newval.value]
      [] newval.type = "Quantity_ms" -> [exc |-> "none", micro |-> newval.value \div 1000]
      [] newval.type = "Quantity_V" -> [exc |-> "ValueError", micro |-> 0]
      [] OTHER -> [exc |-> "AttributeError", micro |-> 0]

\* faulty variant: a value that does not convert counts as convertible
isconvertible_lenient(newval) ==
    LET r == RescaleS(newval) IN
    CASE r.exc \in {"none", "ValueError"} -> [exc |-> "none", val |-> TRUE]
      [] OTHER -> [exc |-> r.exc, val |-> FALSE]

\* isconvertible(value, 's'): only ValueError is caught
isconvertible(newval) ==
    LET r == RescaleS(newval) IN
    CASE r.exc = "none" -> [exc |-> "none", val |-> TRUE]
      [] r.exc = "ValueError" -> [exc |-> "none", val |-> FALSE]
      [] OTHER -> [exc |-> r.exc, val |-> FALSE]

RECURSIVE ZeroPad(_, _)
ZeroPad(s, w) == IF Len(s) >= w THEN s ELSE ZeroPad(<<"0">> \o s, w)

\* '{:f}'.format(x), x >= 0 or x < 0, six decimals
FormatF(micro) ==
    LET a == IF micro < 0 THEN 0 - micro ELSE micro
        body == NatStr(a \div Micro) \o <<".">> \o ZeroPad(NatStr(a % Micro), 6)
    IN IF micro < 0 THEN <<"-">> \o body ELSE body

\* '{:+07.2f}'.format(x) for x a whole number of hundredths
FormatSigned72(micro) ==
    LET a == IF micro < 0 THEN 0 - micro ELSE micro
        c == a \div 10000
        body == NatStr(c \div 100) \o <<".">> \o ZeroPad(NatStr(c % 100), 2)
    IN <<(IF micro < 0 THEN "-" ELSE "+")>> \o ZeroPad(body, 6)

----------------------------------------------------------------------------
(* Keithley775A: the property setters.  Each yields [exc, tx].              *)

Raise(e) == [exc |-> e, tx |-> <<>>]

Sent(cmd) == [exc |-> "none", tx |-> <<Send(cmd)>>]

\* if not isinstance(newval, T): raise TypeError; sendcmd(prefix + ordinal + 'X')
EnumSetter(t, prefix, newval) ==
    IF ~IsEnum(newval, t) THEN Raise("TypeError")
    ELSE Sent(prefix \o IntStr(newval.value) \o <<"X">>)

\* if not isinstance(newval, bool): raise TypeError; sendcmd(prefix + '1'/'0' + 'X')
BoolSetter(prefix, newval) ==
    IF ~IsBool(newval) THEN Raise("TypeError")
    ELSE Sent(prefix \o <<(IF newval.value = 1 THEN "1" ELSE "0")>> \o <<"X">>)

ChannelLetter(idx) == IF idx = 0 THEN "A" ELSE "B"

coupling_setter(idx, newval) == EnumSetter("Coupling", <<ChannelLetter(idx), "C">>, newval)

attenuator_setter(idx, newval) == EnumSetter("Attenuator", <<ChannelLetter(idx), "A">>, newval)

filter_setter(idx, newval) == BoolSetter(<<ChannelLetter(idx), "F">>, newval)

slope_setter(idx, newval) == EnumSetter("Slope", <<ChannelLetter(idx), "S">>, newval)

\* Channel.trigger: float(newval) of a quantity, isfloat, '{}L{:+07.2f}X'
trigger_setter(idx, newval) ==
    IF IsQuantity(newval) \/ newval.type \in {"float", "int"}
    THEN Sent(<<ChannelLetter(idx), "L">> \o FormatSigned72(newval.value) \o <<"X">>)
    ELSE Raise("TypeError")

\* the member a mode argument denotes: Mode[newval] for a str (KeyError if no
\* member has the name)
ModeOf(newval) ==
    IF newval.type = "str"
    THEN IF newval.value \in 1..Len(ModeNames)
         THEN [exc |-> "none", val |-> V("Mode", newval.value - 1)]
         ELSE [exc |-> "KeyError", val |-> newval]
    ELSE [exc |-> "none", val |-> newval]

\* faulty variant: the period and interval modes leave the unit at Hz
ModeUnit_periods_Hz(m) ==
    CASE m \in {0, 1, 6} -> "Hz"
      [] m \in {2, 3, 4} -> "Hz"
      [] m \in {5, 7} -> "1"

\* self.unit after mode.setter accepted Mode member m
ModeUnit(m) ==
    CASE m \in {0, 1, 6} -> "Hz"
      [] m \in {2, 3, 4} -> "s"
      [] m \in {5, 7} -> "1"

mode_setter(newval) ==
    LET m == ModeOf(newval) IN
    IF m.exc # "none" THEN Raise(m.exc)
    ELSE EnumSetter("Mode", <<"F">>, m.val)

\* self.unit after mode.setter(newval)
mode_unit(newval, unit) ==
    LET m == ModeOf(newval) IN
    IF m.exc = "none" /\ IsEnum(m.val, "Mode") THEN ModeUnit(m.val.value) ELSE unit

rate_setter(newval) == EnumSetter("Rate", <<"S">>, newval)

\* index of "U" among the str arguments
StrU == Len(StrTable) + 1

gate_time_setter(newval) ==
    IF newval.type = "str" /\ newval.value = StrU THEN Sent(<<"G", "U", "X">>)
    ELSE LET c == isconvertible(newval) IN
         IF c.exc # "none" THEN Raise(c.exc)
         ELSE IF ~c.val THEN Raise("TypeError")
         ELSE Sent(<<"G">> \o FormatF(RescaleS(newval).micro) \o <<"X">>)

delay_time_setter(newval) ==
    IF newval.type = "str" /\ newval.value = StrU THEN Sent(<<"D", "U", "X">>)
    ELSE LET c == isconvertible(newval) IN
         IF c.exc # "none" THEN Raise(c.exc)
         ELSE IF ~c.val THEN Raise("TypeError")
         ELSE Sent(<<"D">> \o FormatF(RescaleS(newval).micro) \o <<"X">>)

delay_setter(newval) == BoolSetter(<<"I">>, newval)

displayed_digits_setter(newval) ==
    IF ~IsInt(newval) THEN Raise("TypeError")
    ELSE IF ~(newval.value >= 3 /\ newval.value <= 9) THEN Raise("RuntimeError")
    ELSE Sent(<<"N">> \o FormatInt(newval) \o <<"X">>)

EOI_setter(newval) == BoolSetter(<<"K">>, newval)

\* faulty variant: the upper bound of the SRQ mask off by one
srq_mask_setter_upto60(newval) ==
    IF ~IsInt(newval) THEN Raise("TypeError")
    ELSE IF ~(newval.value >= 0 /\ newval.value <= 60) THEN Raise("RuntimeError")
    ELSE Sent(<<"M">> \o FormatInt(newval) \o <<"X">>)

srq_mask_setter(newval) ==
    IF ~IsInt(newval) THEN Raise("TypeError")
    ELSE IF ~(newval.value >= 0 /\ newval.value <= 59) THEN Raise("RuntimeError")
    ELSE Sent(<<"M">> \o FormatInt(newval) \o <<"X">>)

terminator_setter(newval) == EnumSetter("Terminator", <<"Y">>, newval)

display_mode_setter(newval) == EnumSetter("DisplayMode", <<"D">>, newval)

data_format_setter(newval) == EnumSetter("DataFormat", <<"P">>, newval)

\* faulty variant: the totalize command loses the second letter of its mnemonic
totalize_setter_T(newval) == EnumSetter("Totalize", <<"T">>, newval)

totalize_setter(newval) == EnumSetter("Totalize", <<"T", "O">>, newval)

\* the settable properties; a channel property carries its channel letter
KParams ==
    {"mode", "rate", "gate_time", "delay_time", "delay", "displayed_digits", "EOI",
     "srq_mask", "terminator", "display_mode", "data_format", "totalize",
     "coupling_A", "attenuator_A", "filter_A", "slope_A", "trigger_A",
     "coupling_B", "attenuator_B", "filter_B", "slope_B", "trigger_B"}

KeithleySetter(param, newval) ==
    CASE param = "mode" -> mode_setter(newval)
      [] param = "rate" -> rate_setter(newval)
      [] param = "gate_time" -> gate_time_setter(newval)
      [] param = "delay_time" -> delay_time_setter(newval)
      [] param = "delay" -> delay_setter(newval)
      [] param = "displayed_digits" -> displayed_digits_setter(newval)
      [] param = "EOI" -> EOI_setter(newval)
      [] param = "srq_mask" -> srq_mask_setter(newval)
      [] param = "terminator" -> terminator_setter(newval)
      [] param = "display_mode" -> display_mode_setter(newval)
      [] param = "data_format" -> data_format_setter(newval)
      [] param = "totalize" -> totalize_setter(newval)
      [] param = "coupling_A" -> coupling_setter(0, newval)
      [] param = "attenuator_A" -> attenuator_setter(0, newval)
      [] param = "filter_A" -> filter_setter(0, newval)
      [] param = "slope_A" -> slope_setter(0, newval)
      [] param = "trigger_A" -> trigger_setter(0, newval)
      [] param = "coupling_B" -> coupling_setter(1, newval)
      [] param = "attenuator_B" -> attenuator_setter(1, newval)
      [] param = "filter_B" -> filter_setter(1, newval)
      [] param = "slope_B" -> slope_setter(1, newval)
      [] param = "trigger_B" -> trigger_setter(1, newval)

----------------------------------------------------------------------------
(* Keithley775A: the status words and their decoders *)

\* sendcmd('U{}X'.format(U)); return self.query("")
get_status_word(U) == <<Send(<<"U">> \o IntStr(U) \o <<"X">>), Query(<<>>)>>

\* faulty variant: only the first two characters of the prefix are compared
HasPrefix77(s) == Slice(s, 0, 2) = <<"7", "7">>

\* assert(s[0:3] == '775')
HasPrefix775(s) == Slice(s, 0, 3) = <<"7", "7", "5">>

\* faulty variant: only the last four characters of the suffix are compared
HasSuffix0000(s) == SliceLast(s, 4) = <<"0", "0", "0", "0">>

\* assert(s[-5:] == '00000')
HasSuffix00000(s) == SliceLast(s, 5) = <<"0", "0", "0", "0", "0">>

PF(key, off, kind, type) == [key |-> key, off |-> off, kind |-> kind, type |-> type]

\* the entries of parse_operating_mode's result, in evaluation order
ParseFields ==
    << PF("mode", 3, "enum", "Mode"),
       PF("coupling_A", 4, "enum", "Coupling"),
       PF("attenuator_A", 5, "enum", "Attenuator"),
       PF("filter_A", 6, "bool", "bool"),
       PF("slope_A", 7, "enum", "Slope"),
       PF("coupling_B", 8, "enum", "Coupling"),
       PF("attenuator_B", 9, "enum", "Attenuator"),
       PF("filter_B", 10, "bool", "bool"),
       PF("slope_B", 11, "enum", "Slope"),
       PF("delay", 12, "bool", "bool"),
       PF("display_mode", 13, "enum", "DisplayMode"),
       PF("data_format", 14, "enum", "DataFormat"),
       PF("displayed_digits", 15, "int", "int"),
       PF("EOI", 16, "bool", "bool"),
       PF("SRQ_mask", 17, "int2", "int"),
       PF("rate", 19, "enum", "Rate"),
       PF("terminator", 20, "enum", "Terminator"),
       PF("totalize", 21, "enum", "Totalize") >>

\* one entry of the result: Enum(int(s[off])), s[off] == '1', int(s[off]),
\* int(s[17:][:2]); [exc, val]
DecodeField(s, f) ==
    IF f.kind = "int2"
    THEN LET n == PyInt(Slice(SliceFrom(s, f.off), 0, 2)) IN
         IF n.ok THEN [exc |-> "none", val |-> V("int", n.val)]
         ELSE [exc |-> "ValueError", val |-> NoValue]
    ELSE IF Len(s) <= f.off THEN [exc |-> "IndexError", val |-> NoValue]
    ELSE IF f.kind = "bool"
         THEN [exc |-> "none", val |-> V("bool", IF s[f.off + 1] = "1" THEN 1 ELSE 0)]
    ELSE LET n == PyInt(<<s[f.off + 1]>>) IN
         IF ~n.ok THEN [exc |-> "ValueError", val |-> NoValue]
         ELSE IF f.kind = "enum" /\ n.val \notin EnumMembers(f.type)
              THEN [exc |-> "ValueError", val |-> NoValue]
         ELSE [exc |-> "none", val |-> V(f.type, n.val)]

\* parse_operating_mode on the response s: [exc, val]; val maps each key to its value
parse_operating_mode(s) ==
    IF ~HasPrefix775(s) THEN [exc |-> "AssertionError", val |-> NoValue]
    ELSE LET bad == {i \in 1..Len(ParseFields) : DecodeField(s, ParseFields[i]).exc # "none"} IN
         IF bad # {}
         THEN LET i == CHOOSE j \in bad : \A k \in bad : j <= k IN
              [exc |-> DecodeField(s, ParseFields[i]).exc, val |-> NoValue]
         ELSE [exc |-> "none",
               val |-> [k \in {ParseFields[i].key : i \in 1..Len(ParseFields)} |->
                          LET i == CHOOSE j \in 1..Len(ParseFields) : ParseFields[j].key = k
                          IN DecodeField(s, ParseFields[i]).val]]

\* s[k] == '1' for an offset k
FlagAt(s, k) ==
    IF Len(s) <= k THEN [exc |-> "IndexError", val |-> FALSE]
    ELSE [exc |-> "none", val |-> s[k + 1] = "1"]

\* parse_error_status on the response s: [exc, val]
parse_error_status(s) ==
    IF ~HasPrefix775(s) THEN [exc |-> "AssertionError", val |-> NoValue]
    ELSE IF ~HasSuffix00000(s) THEN [exc |-> "AssertionError", val |-> NoValue]
    ELSE IF \E k \in 3..6 : FlagAt(s, k).exc # "none"
         THEN [exc |-> "IndexError", val |-> NoValue]
    ELSE [exc |-> "none",
          val |-> [IDDC |-> FlagAt(s, 3).val, IDDCO |-> FlagAt(s, 4).val,
                   gate_error |-> FlagAt(s, 5).val, self_test_error |-> FlagAt(s, 6).val]]

\* the key of parse_operating_mode's result a property getter reads
GetterKey(param) == IF param = "srq_mask" THEN "SRQ_mask" ELSE param

\* the properties read from the operating-mode status word
KStatusParams ==
    {"mode", "rate", "delay", "displayed_digits", "EOI", "srq_mask", "terminator",
     "display_mode", "data_format", "totalize",
     "coupling_A", "attenuator_A", "filter_A", "slope_A",
     "coupling_B", "attenuator_B", "filter_B", "slope_B"}

\* a property getter: self.parse_operating_mode()[key] on the response s
KeithleyGetter(param, s) ==
    LET r == parse_operating_mode(s) IN
    IF r.exc # "none" THEN r ELSE [exc |-> "none", val |-> r.val[GetterKey(param)]]

----------------------------------------------------------------------------
(* The instrument side of the Keithley 775A: the operating-mode status word *)
(* is '775' followed by the parameters in the order of the manual's command *)
(* list (the order of the reset command string); a command <mnemonic><n>X   *)
(* stores n under its mnemonic.  G, W, AL, BL have no place in the word.    *)

DF(mn, width) == [mn |-> mn, width |-> width]

DeviceFields ==
    << DF(<<"F">>, 1), DF(<<"A", "C">>, 1), DF(<<"A", "A">>, 1), DF(<<"A", "F">>, 1),
       DF(<<"A", "S">>, 1), DF(<<"B", "C">>, 1), DF(<<"B", "A">>, 1), DF(<<"B", "F">>, 1),
       DF(<<"B", "S">>, 1), DF(<<"I">>, 1), DF(<<"D">>, 1), DF(<<"P">>, 1),
       DF(<<"N">>, 1), DF(<<"K">>, 1), DF(<<"M">>, 2), DF(<<"S">>, 1), DF(<<"Y">>, 1),
       DF(<<"T", "O">>, 1) >>

RECURSIVE DeviceOffset(_)
DeviceOffset(i) == IF i = 1 THEN 3 ELSE DeviceOffset(i - 1) + DeviceFields[i - 1].width

\* the parameter text of command cmd if it is <mn><digits>X, else <<>>
DeviceParam(cmd, mn) ==
    IF Len(cmd) > Len(mn) + 1 /\ SubSeq(cmd, 1, Len(mn)) = mn /\ cmd[Len(cmd)] = "X"
    THEN SubSeq(cmd, Len(mn) + 1, Len(cmd) - 1)
    ELSE <<>>

DeviceExec(word, cmd) ==
    LET hit == {i \in 1..Len(DeviceFields) :
                  LET p == DeviceParam(cmd, DeviceFields[i].mn) IN
                  AllDigits(p) /\ Len(p) <= DeviceFields[i].width}
    IN IF hit = {} THEN word
       ELSE LET i == CHOOSE j \in hit : TRUE
                p == ZeroPad(DeviceParam(cmd, DeviceFields[i].mn), DeviceFields[i].width)
                o == DeviceOffset(i)
            IN SubSeq(word, 1, o) \o p \o SubSeq(word, o + Len(p) + 1, Len(word))

\* the word after a device clear: F0 AC0 AA0 AF0 AS0 BC0 BA0 BF0 BS0 I0 D0 P0 N9 K0
\* M00 S1 Y0 TO0
DefaultWord ==
    <<"7", "7", "5", "0", "0", "0", "0", "0", "0", "0", "0", "0", "0", "0", "0", "9",
      "0", "0", "0", "1", "0", "0">>

RECURSIVE DeviceRun(_, _)
DeviceRun(word, t) ==
    IF Len(t) = 0 THEN word
    ELSE DeviceRun(CASE t[1].kind = "send" -> DeviceExec(word, t[1].cmd)
                     [] t[1].kind = "clear" -> DefaultWord
                     [] OTHER -> word,
                   Tail(t))

\* the data-control mode after the transmissions t: B<n>X selects mode n, a
\* device clear selects B0, nothing else changes the mode
RECURSIVE DeviceControl(_, _)
DeviceControl(mode, t) ==
    IF Len(t) = 0 THEN mode
    ELSE DeviceControl(CASE t[1].kind = "send" /\ Len(t[1].cmd) = 3 /\ t[1].cmd[1] = "B"
                                /\ IsDigit(t[1].cmd[2]) /\ t[1].cmd[3] = "X" ->
                                  DigitVal(t[1].cmd[2])
                         [] t[1].kind = "clear" -> 0
                         [] OTHER -> mode,
                       Tail(t))

\* the word after __init__: reset, then terminator Y4X and data format P3X
InitWord ==
    DeviceRun(DefaultWord,
              terminator_setter(V("Terminator", 4)).tx \o data_format_setter(V("DataFormat", 3)).tx)

----------------------------------------------------------------------------
(* Keithley775A: the calls of a session *)

\* calls per session
MaxCalls == 2

EnumParamType(param) ==
    CASE param = "mode" -> "Mode"
      [] param = "rate" -> "Rate"
      [] param = "terminator" -> "Terminator"
      [] param = "display_mode" -> "DisplayMode"
      [] param = "data_format" -> "DataFormat"
      [] param = "totalize" -> "Totalize"
      [] param \in {"coupling_A", "coupling_B"} -> "Coupling"
      [] param \in {"attenuator_A", "attenuator_B"} -> "Attenuator"
      [] param \in {"slope_A", "slope_B"} -> "Slope"
      [] OTHER -> "none"

KEnumParams == {p \in KParams : EnumParamType(p) # "none"}

KBoolParams == {"delay", "EOI", "filter_A", "filter_B"}

\* the arguments a session passes to a setter: every valid value of an enum or
\* bool parameter, the values around the bounds of an int parameter, and values
\* of a wrong type
KArgs(param) ==
    CASE param \in KEnumParams ->
            {V(EnumParamType(param), m) : m \in EnumMembers(EnumParamType(param))}
            \cup {V("int", 1)}
            \cup (IF param = "mode" THEN {V("str", i) : i \in {1, 8, Len(StrTable)}}
                  ELSE {})
      [] param \in KBoolParams -> {V("bool", 0), V("bool", 1), V("int", 1)}
      [] param = "displayed_digits" ->
            {V("int", n) : n \in {2, 3, 9, 10}} \cup {V("bool", 1), V("str", 1)}
      [] param = "srq_mask" ->
            {V("int", n) : n \in {0 - 1, 0, 9, 10, 59, 60}} \cup {V("bool", 1), V("str", 1)}
      [] param \in {"gate_time", "delay_time"} ->
            {V("str", StrU), V("str", Len(StrTable)), V("float", 2500000),
             V("Quantity_s", 2500000), V("Quantity_ms", 2500000), V("Quantity_V", 1000000)}
      [] param \in {"trigger_A", "trigger_B"} ->
            {V("float", 1500000), V("Quantity_V", 0 - 250000), V("str", Len(StrTable))}

\* the value a getter returns after the setter accepted newval
SetValue(param, newval) == IF param = "mode" THEN ModeOf(newval).val ELSE newval

\* pc after a call: a single-call session is done
AfterCall(p) == IF p = "start" THEN "done" ELSE p

KSet(param, newval) ==
    /\ inst = "Keithley775A" /\ pc \in {"ready", "start"} /\ calls < MaxCalls
    /\ LET r == KeithleySetter(param, newval) IN
       /\ tx' = r.tx
       /\ last' = Call("set", param, r.exc)
       /\ kunit' = (IF param = "mode" THEN mode_unit(newval, kunit) ELSE kunit)
       /\ UNCHANGED <<kdc, kfile, kdevdc>>
       /\ kdev' = DeviceRun(kdev, r.tx)
       /\ kset' = (IF r.exc = "none" /\ param \in KStatusParams
                   THEN [kset EXCEPT ![param] = SetValue(param, newval)]
                   ELSE kset)
    /\ arg' = newval
    /\ ret' = NoValue
    /\ calls' = calls + 1
    /\ pc' = AfterCall(pc)
    /\ UNCHANGED <<inst, input, nvars>>

\* a property getter; the instrument answers the U0 request with its status word
KGet(param) ==
    /\ inst = "Keithley775A" /\ pc = "ready" /\ calls < MaxCalls
    /\ LET r == KeithleyGetter(param, kdev) IN
       /\ last' = Call("get", param, r.exc)
       /\ ret' = r.val
    /\ tx' = get_status_word(0)
    /\ arg' = NoValue
    /\ calls' = calls + 1
    /\ UNCHANGED <<inst, pc, input, kvars, nvars>>

KSetStep == \E param \in KParams : \E newval \in KArgs(param) : KSet(param, newval)

KGetStep == \E param \in KStatusParams : KGet(param)

KInitVars ==
    /\ kdev = InitWord
    /\ kunit = "Hz"
    /\ kdc = V("DataControl", 0)
    /\ kfile = "VisaCommunicator"
    /\ kdevdc = 0
    /\ kset = [p \in KStatusParams |-> NoValue]

SessionInit(p, text) ==
    /\ pc = p
    /\ input = text
    /\ last = NoCall
    /\ arg = NoValue
    /\ ret = NoValue
    /\ tx = <<>>
    /\ calls = 0

----------------------------------------------------------------------------
(* Keithley775A, one call per session: the bounds-checked setters over a    *)
(* range of integers, and the status decoders over the responses a          *)
(* transport can deliver.                                                   *)

\* how far beyond 0..59 the integer arguments reach
MaxOut == 3

RangeArgs == {V("int", n) : n \in (0 - MaxOut)..(59 + MaxOut)}

KSetRangeStep ==
    \E param \in {"displayed_digits", "srq_mask"} : \E newval \in RangeArgs :
        KSet(param, newval)

\* the longest run of arbitrary characters in a response
MaxMid == 4

SeqsUpTo(alphabet, n) == UNION {[1..k -> alphabet] : k \in 0..n}

RespPrefixes ==
    {<<"7", "7", "5">>, <<"9", "9", "9">>, <<"7", "7", "6">>, <<"5", "7", "7">>,
     <<"7", "7">>, <<>>}

\* the end of a response: of an error status word, of an operating-mode status
\* word (AS .. TO), or a damaged one
RespTails ==
    {<<"0", "0", "0", "0", "0">>, <<"0", "0", "0", "0", "1">>, <<"0", "0", "0", "0">>,
     <<"1", "0", "0", "0", "0", "0">>, <<>>,
     SubSeq(InitWord, 8, Len(InitWord)), SubSeq(InitWord, 8, Len(InitWord) - 1)}

\* the responses a transport can deliver to a status request
RespSet ==
    {p \o m \o t : p \in RespPrefixes, m \in SeqsUpTo({"0", "1", "x"}, MaxMid),
                    t \in RespTails}

\* parse_operating_mode() / parse_error_status() on the response `input`
KParse(which) ==
    /\ inst = "Keithley775A" /\ pc = "start"
    /\ LET r == IF which = "parse_operating_mode" THEN parse_operating_mode(input)
                ELSE parse_error_status(input)
       IN /\ last' = Call(which, "none", r.exc)
          /\ ret' = r.val
    /\ tx' = get_status_word(IF which = "parse_operating_mode" THEN 0 ELSE 1)
    /\ arg' = NoValue
    /\ calls' = calls + 1
    /\ pc' = "done"
    /\ UNCHANGED <<inst, input, kvars, nvars>>

KParseOperatingMode == KParse("parse_operating_mode")

KParseErrorStatus == KParse("parse_error_status")

----------------------------------------------------------------------------
(* Float text *)

RECURSIVE StripZeros(_)
StripZeros(s) ==
    IF Len(s) > 1 /\ s[Len(s)] = "0" THEN StripZeros(SubSeq(s, 1, Len(s) - 1)) ELSE s

\* str(x) of a float x given in millionths: shortest decimal text, at least one decimal
FloatStr(micro) ==
    LET a == IF micro < 0 THEN 0 - micro ELSE micro
        body == NatStr(a \div Micro) \o <<".">> \o StripZeros(ZeroPad(NatStr(a % Micro), 6))
    IN IF micro < 0 THEN <<"-">> \o body ELSE body

\* the positions at which character c occurs in s
Positions(s, c) == {i \in 1..Len(s) : s[i] = c}

\* s.split(c): the parts of s between the occurrences of c
RECURSIVE Split(_, _)
Split(s, c) ==
    IF Positions(s, c) = {} THEN <<s>>
    ELSE LET i == CHOOSE j \in Positions(s, c) : \A k \in Positions(s, c) : j <= k
         IN <<SubSeq(s, 1, i - 1)>> \o Split(SubSeq(s, i + 1, Len(s)), c)

\* sep.join(parts)
RECURSIVE Join(_, _)
Join(parts, sep) ==
    IF Len(parts) = 0 THEN <<>>
    ELSE IF Len(parts) = 1 THEN parts[1]
    ELSE parts[1] \o sep \o Join(Tail(parts), sep)

----------------------------------------------------------------------------
(* Keithley775A: construction, the data-control selection and the readings  *)
(* of gate time, delay time and trigger levels                              *)

\* the text after s padded with zeros on the right to width w
RECURSIVE PadRight(_, _)
PadRight(s, w) == IF Len(s) >= w THEN s ELSE PadRight(s \o <<"0">>, w)

\* float(s) of a decimal text with at most six decimals: [ok, micro]; not ok is
\* ValueError
PyFloat(s) ==
    LET signed == Len(s) > 0 /\ s[1] \in {"-", "+"}
        body == IF signed THEN Tail(s) ELSE s
        parts == Split(body, ".")
        ip == parts[1]
        fp == IF Len(parts) = 2 THEN parts[2] ELSE <<>>
        digits(t) == \A i \in 1..Len(t) : IsDigit(t[i])
        mag == DigitsVal(ip) * Micro + DigitsVal(PadRight(fp, 6))
    IN IF Len(parts) > 2 \/ ~digits(ip) \/ ~digits(fp) \/ Len(ip) + Len(fp) = 0 \/ Len(fp) > 6
       THEN [ok |-> FALSE, micro |-> 0]
       ELSE [ok |-> TRUE, micro |-> IF signed /\ s[1] = "-" THEN 0 - mag ELSE mag]

Clear == [kind |-> "clear", cmd |-> <<>>]

ResetCommand ==
    <<"F", "0", "A", "C", "0", "A", "A", "0", "A", "F", "0", "A", "S", "0",
      "B", "C", "0", "B", "A", "0", "B", "F", "0", "B", "S", "0", "I", "0", "D", "0",
      "P", "0", "N", "9", "K", "0", "M", "0", "0", "S", "1", "Y", "0", "G", "0",
      "W", "0", "A", "L", "0", "B", "L", "0", "T", "O", "0", "X">>

\* the communicators a Keithley775A can be opened on
KFiles == {"VisaCommunicator", "GPIBCommunicator", "SerialCommunicator"}

isGPIB(file) == file = "VisaCommunicator"

\* assertGPIB(): the exception it ends with
assertGPIB(file) == IF isGPIB(file) THEN "none" ELSE "RuntimeError"

\* reset() with self.reset_mode = reset_mode: [exc, tx]; unit and dc are set
\* after the branch, so only when it did not raise
reset(reset_mode, file) ==
    CASE reset_mode = "cmd" -> Sent(ResetCommand)
      [] reset_mode = "GPIB" ->
            IF assertGPIB(file) # "none" THEN Raise(assertGPIB(file))
            ELSE [exc |-> "none", tx |-> <<Clear>>]
      [] OTHER -> Raise("RuntimeError")

\* Keithley775A(filelike): [exc, tx, unit, dc]
Keithley775A_init(file) ==
    LET r == reset("GPIB", file) IN
    IF r.exc # "none"
    THEN [exc |-> r.exc, tx |-> r.tx, unit |-> "unset", dc |-> NoValue]
    ELSE [exc |-> "none",
          tx |-> r.tx \o terminator_setter(V("Terminator", 4)).tx
                      \o data_format_setter(V("DataFormat", 3)).tx,
          unit |-> "Hz", dc |-> V("DataControl", 0)]

\* the _data_control setter with self.dc = dc: [exc, tx, dc]
data_control_setter(dc, newval) ==
    IF ~IsEnum(newval, "DataControl") THEN [exc |-> "TypeError", tx |-> <<>>, dc |-> dc]
    ELSE [exc |-> "none",
          tx |-> IF dc # newval THEN <<Send(<<"B">> \o IntStr(newval.value) \o <<"X">>)>>
                 ELSE <<>>,
          dc |-> newval]

\* the readings selected through data control: the DataControl member and the
\* unit of the result
KReadings ==
    [gate_time       |-> [dc |-> 1, unit |-> "Quantity_s"],
     delay_time      |-> [dc |-> 2, unit |-> "Quantity_s"],
     trigger_level_A |-> [dc |-> 3, unit |-> "Quantity_V"],
     trigger_level_B |-> [dc |-> 4, unit |-> "Quantity_V"]]

\* get_gate_time(), get_delay_time(), get_trigger_level_A(), get_trigger_level_B()
\* with the device answering resp: [exc, tx, dc, val]
get_reading(which, dc, resp) ==
    LET d == data_control_setter(dc, V("DataControl", KReadings[which].dc))
        f == PyFloat(resp)
    IN [exc |-> IF f.ok THEN "none" ELSE "ValueError",
        tx |-> d.tx \o <<Query(<<>>)>>,
        dc |-> d.dc,
        val |-> IF f.ok THEN V(KReadings[which].unit, f.micro) ELSE NoValue]

\* the answers of the device to a reading
KReadingResps ==
    { <<"2", ".", "5", "0", "0", "0", "0", "0">>, <<"-", "0", ".", "2", "5">>, <<"U">> }

\* the constructor
KConstruct(file) ==
    /\ inst = "Keithley775A" /\ pc = "new"
    /\ LET r == Keithley775A_init(file) IN
       /\ tx' = r.tx
       /\ last' = Call("__init__", "none", r.exc)
       /\ kunit' = r.unit
       /\ kdc' = r.dc
       /\ kdev' = DeviceRun(kdev, r.tx)
       /\ kdevdc' = DeviceControl(kdevdc, r.tx)
       /\ pc' = (IF r.exc = "none" THEN "ready" ELSE "failed")
    /\ kfile' = file
    /\ arg' = NoValue
    /\ ret' = NoValue
    /\ UNCHANGED <<inst, input, calls, kset, nvars>>

\* counter.gate_time, counter.delay_time, get_trigger_level_A(), ..._B()
KGetReading(which, resp) ==
    /\ inst = "Keithley775A" /\ pc = "ready" /\ calls < MaxCalls
    /\ LET r == get_reading(which, kdc, resp) IN
       /\ tx' = r.tx
       /\ last' = Call("get", which, r.exc)
       /\ kdc' = r.dc
       /\ kdevdc' = DeviceControl(kdevdc, r.tx)
       /\ ret' = r.val
    /\ input' = resp
    /\ arg' = NoValue
    /\ calls' = calls + 1
    /\ UNCHANGED <<inst, pc, kdev, kunit, kfile, kset, nvars>>

KConstructStep == \E file \in KFiles : KConstruct(file)

KSetTimeStep ==
    \E param \in {"gate_time", "delay_time", "mode"} : \E newval \in KArgs(param) :
        KSet(param, newval)

KGetReadingStep ==
    \E which \in DOMAIN KReadings : \E resp \in KReadingResps : KGetReading(which, resp)

\* before construction: no unit, no data-control selection, no communicator; the
\* instrument holds the settings of an earlier session
KNewVars ==
    /\ kdev \in {DefaultWord, DeviceExec(DefaultWord, <<"F", "3", "X">>)}
    /\ kunit = "unset"
    /\ kdc = NoValue
    /\ kfile = "none"
    /\ kdevdc \in {0, 1}
    /\ kset = [p \in KStatusParams |-> NoValue]

----------------------------------------------------------------------------
(* Keithley775A: reset, read and measure *)

\* int(s) of the text s the instrument answered: [ok, val], as float(s) is
\* PyFloat(s)
read_int(s) == PyInt(s)

\* read(trigger = False) with self.dc = dc, the instrument answering resp:
\* [exc, tx, dc, val]
read(dc, resp) ==
    [exc |-> "none",
     tx |-> data_control_setter(dc, V("DataControl", 0)).tx \o <<Query(<<>>)>>,
     dc |-> V("DataControl", 0),
     val |-> V("str", resp)]

\* measure(trigger = False) with self.unit = unit: measure_int if the unit is
\* 1, else measure_float times the unit
measure(unit, dc, resp) ==
    [exc |-> IF unit = "1"
             THEN (IF read_int(resp).ok THEN "none" ELSE "ValueError")
             ELSE (IF PyFloat(resp).ok THEN "none" ELSE "ValueError"),
     tx |-> read(dc, resp).tx,
     dc |-> read(dc, resp).dc,
     val |-> IF unit = "1"
             THEN (IF read_int(resp).ok THEN V("int", read_int(resp).val) ELSE NoValue)
             ELSE (IF PyFloat(resp).ok THEN V("Quantity_" \o unit, PyFloat(resp).micro)
                   ELSE NoValue)]

\* the calls of a session with resets and measurements
MaxOps == 3

\* the answers of the instrument to read and measure
KMeasureResps == { <<"0", "0", "1", "2">>, <<"2", ".", "5">>, <<"U">> }

\* what read or measure with the outcome r leaves behind
KReadCall(op, resp, r) ==
    /\ tx' = r.tx
    /\ last' = Call(op, "none", r.exc)
    /\ kdc' = r.dc
    /\ kdevdc' = DeviceControl(kdevdc, r.tx)
    /\ ret' = r.val
    /\ input' = resp
    /\ arg' = NoValue
    /\ calls' = calls + 1
    /\ UNCHANGED <<inst, pc, kdev, kunit, kfile, kset, nvars>>

\* counter.read()
KRead(resp) ==
    /\ inst = "Keithley775A" /\ pc = "ready" /\ calls < MaxOps
    /\ KReadCall("read", resp, read(kdc, resp))

\* counter.measure()
KMeasure(resp) ==
    /\ inst = "Keithley775A" /\ pc = "ready" /\ calls < MaxOps
    /\ KReadCall("measure", resp, measure(kunit, kdc, resp))

\* counter.reset_mode = reset_mode; counter.reset()
KReset(reset_mode) ==
    /\ inst = "Keithley775A" /\ pc = "ready" /\ calls < MaxOps
    /\ LET r == reset(reset_mode, kfile) IN
       /\ tx' = r.tx
       /\ last' = Call("reset", reset_mode, r.exc)
       /\ kunit' = (IF r.exc = "none" THEN "Hz" ELSE kunit)
       /\ kdc' = (IF r.exc = "none" THEN V("DataControl", 0) ELSE kdc)
       /\ kdev' = DeviceRun(kdev, r.tx)
       /\ kdevdc' = DeviceControl(kdevdc, r.tx)
    /\ arg' = NoValue
    /\ ret' = NoValue
    /\ calls' = calls + 1
    /\ UNCHANGED <<inst, pc, input, kfile, kset, nvars>>

KReadStep == \E resp \in KMeasureResps : KRead(resp)

KMeasureStep == \E resp \in KMeasureResps : KMeasure(resp)

KResetStep == \E reset_mode \in {"cmd", "GPIB", "bogus"} : KReset(reset_mode)

KSetModeStep == \E newval \in KArgs("mode") : KSet("mode", newval)

----------------------------------------------------------------------------
(* Keithley775A: trigger and the wait for a service request.  The position  *)
(* of a trigger call that waits is wait_for_srq (in conn.wait_for_srq()) or  *)
(* srq (wait_for_srq returned, the status byte is about to be read); input   *)
(* holds the status byte of a service request not yet polled.                *)

Trigger == [kind |-> "trigger", cmd |-> <<>>]

\* trigger() up to the wait, with self.trigger_mode = trigger_mode: [exc, tx]
trigger(trigger_mode, file) ==
    CASE trigger_mode = "cmd" -> Sent(<<"T", "X">>)
      [] trigger_mode = "GPIB" ->
            IF assertGPIB(file) # "none" THEN Raise(assertGPIB(file))
            ELSE [exc |-> "none", tx |-> <<Trigger>>]
      [] OTHER -> Raise("RuntimeError")

\* faulty variant: the ready bit (16) is read for the reading-done bit
sb_reading_done_bit16(sb) == (sb \div 16) % 2 = 1

\* sb_reading_done() with the status byte sb: whether sb & 8 is non-zero
sb_reading_done(sb) == (sb \div 8) % 2 = 1

\* the status bytes of a service request: rqs (64) alone, with reading done (8),
\* with ready (16), with error (32) and reading done, with overflow (1), and
\* with reading done and overflow
StatusBytes == {64, 72, 80, 104, 65, 73}

\* counter.trigger_mode = trigger_mode; counter.trigger(wait_SRQ)
KTrigger(trigger_mode, wait_SRQ) ==
    /\ inst = "Keithley775A" /\ pc = "ready" /\ calls < MaxOps
    /\ LET r == trigger(trigger_mode, kfile) IN
       /\ tx' = r.tx
       /\ last' = Call("trigger", trigger_mode, r.exc)
       /\ pc' = (IF r.exc = "none" /\ wait_SRQ THEN "wait_for_srq" ELSE "ready")
    /\ arg' = V("bool", IF wait_SRQ THEN 1 ELSE 0)
    /\ ret' = NoValue
    /\ calls' = calls + 1
    /\ UNCHANGED <<inst, input, kvars, nvars>>

\* the instrument requests service with the status byte sb
KServiceRequest(sb) ==
    /\ inst = "Keithley775A" /\ pc = "wait_for_srq" /\ input = <<>>
    /\ input' = <<sb>>
    /\ UNCHANGED <<inst, pc, last, arg, ret, tx, calls, kvars, nvars>>

\* conn.wait_for_srq() returns
KWaitForSrq ==
    /\ inst = "Keithley775A" /\ pc = "wait_for_srq" /\ input # <<>>
    /\ pc' = "srq"
    /\ UNCHANGED <<inst, input, last, arg, ret, tx, calls, kvars, nvars>>

\* if self.sb_reading_done(): break -- the serial poll takes the status byte,
\* which ret keeps
KReadingDone ==
    /\ inst = "Keithley775A" /\ pc = "srq"
    /\ pc' = (IF sb_reading_done(input[1]) THEN "ready" ELSE "wait_for_srq")
    /\ input' = <<>>
    /\ ret' = V("int", input[1])
    /\ UNCHANGED <<inst, last, arg, tx, calls, kvars, nvars>>

KTriggerStep ==
    \E trigger_mode \in {"cmd", "GPIB", "bogus"} : \E wait_SRQ \in BOOLEAN :
        KTrigger(trigger_mode, wait_SRQ)

KServiceRequestStep == \E sb \in StatusBytes : KServiceRequest(sb)

----------------------------------------------------------------------------
(* Wavetek39A *)

\* _UNIT_MNEMONICS[units]: [exc, text]; a key that is no VoltageMode is a KeyError
UNIT_MNEMONICS(units) ==
    CASE units = "peak_to_peak" -> [exc |-> "none", text |-> <<"V", "P", "P">>]
      [] units = "rms" -> [exc |-> "none", text |-> <<"V", "R", "M", "S">>]
      [] units = "dBm" -> [exc |-> "none", text |-> <<"D", "B", "M">>]
      [] OTHER -> [exc |-> "KeyError", text |-> <<>>]

\* _set_amplitude_(magnitude, units): [exc, tx]
set_amplitude(magnitude, units) ==
    LET mn == UNIT_MNEMONICS(units) IN
    IF mn.exc # "none" THEN Raise(mn.exc)
    ELSE [exc |-> "none",
          tx |-> << Send(<<"A", "M", "P", "U", "N", "I", "T", " ">> \o mn.text),
                    Send(<<"A", "M", "P", "L", " ">> \o FloatStr(magnitude.value)) >>]

WUnits == {"peak_to_peak", "rms", "dBm", "bogus"}

WMagnitudes == {V("float", 1000000), V("float", 2500000), V("float", 0 - 500000)}

WSetAmplitude(magnitude, units) ==
    /\ inst = "Wavetek39A" /\ pc = "ready" /\ calls < MaxCalls
    /\ LET r == set_amplitude(magnitude, units) IN
       /\ tx' = r.tx
       /\ last' = Call("set", units, r.exc)
    /\ arg' = magnitude
    /\ ret' = NoValue
    /\ calls' = calls + 1
    /\ UNCHANGED <<inst, pc, input, kvars, nvars>>

WSetAmplitudeStep ==
    \E magnitude \in WMagnitudes : \E units \in WUnits : WSetAmplitude(magnitude, units)

----------------------------------------------------------------------------
(* Wavetek39A: arbitrary waveforms.  A waveform csv is a list of Python ints, *)
(* held as [head, fill]: the points of head followed by fill points 0.        *)

\* len(csv)
len(csv) == Len(csv.head) + csv.fill

\* check_arb_name(cpd): the exception it raises
check_arb_name(cpd) ==
    IF ~(Len(cpd) >= 1 /\ Len(cpd) <= 8) THEN "RuntimeError" ELSE "none"

\* faulty variant: a point of 2048 passes check_val
prepare_for_sending_upto2048(cpd, csv) ==
    IF check_arb_name(cpd) # "none" THEN [exc |-> check_arb_name(cpd), length |-> 0]
    ELSE IF len(csv) < 4 \/ len(csv) > 65536 THEN [exc |-> "RuntimeError", length |-> 0]
    ELSE IF \E i \in 1..Len(csv.head) : ~(0 - 2048 <= csv.head[i] /\ csv.head[i] <= 2048)
         THEN [exc |-> "RuntimeError", length |-> 0]
    ELSE [exc |-> "none", length |-> len(csv)]

\* prepare_for_sending(cpd, csv): [exc, length]; csvint is csv, int(x) of an
\* int being x, and the fill points 0 pass check_val
prepare_for_sending(cpd, csv) ==
    IF check_arb_name(cpd) # "none" THEN [exc |-> check_arb_name(cpd), length |-> 0]
    ELSE IF len(csv) < 4 \/ len(csv) > 65536 THEN [exc |-> "RuntimeError", length |-> 0]
    ELSE IF \E i \in 1..Len(csv.head) : ~(0 - 2048 <= csv.head[i] /\ csv.head[i] <= 2047)
         THEN [exc |-> "RuntimeError", length |-> 0]
    ELSE [exc |-> "none", length |-> len(csv)]

\* the command text up to the fill points and the number of fill points after it
ArbCommand(text, fill) == [text |-> text, fill |-> fill]

\* ",".join([str(i) for i in csvint]) for the points of head
CsvText(head) == Join([i \in 1..Len(head) |-> IntStr(head[i])], <<",">>)

\* struct.pack('>h', x): two bytes, big-endian two's complement
RECURSIVE pack(_)
pack(head) ==
    IF Len(head) = 0 THEN <<>>
    ELSE <<((head[1] + 65536) % 65536) \div 256, ((head[1] + 65536) % 65536) % 256>>
         \o pack(Tail(head))

\* _arbitrary_send_data_csv(cpd, csv, command), prepare_for_sending having given p
arbitrary_send_data_csv(cpd, csv, command, p) ==
    IF p.exc # "none" THEN Raise(p.exc)
    ELSE Sent(ArbCommand(command \o <<" ">> \o cpd \o <<",">> \o NatStr(p.length) \o <<",">>
                         \o CsvText(csv.head), csv.fill))

\* _arbitrary_send_data(cpd, csv, command), prepare_for_sending having given p:
\* the text ends with the header '#<digits><bytes>', the bytes follow it
arbitrary_send_data(cpd, csv, command, p) ==
    IF p.exc # "none" THEN Raise(p.exc)
    ELSE Sent([text |-> command \o <<" ">> \o cpd \o <<",">> \o NatStr(p.length) \o <<",">>
                        \o <<"#">> \o NatStr(Len(NatStr(2 * p.length)))
                        \o NatStr(2 * p.length),
               bin_data |-> pack(csv.head), fill |-> 2 * csv.fill])

\* the upload methods: the command word and whether the points go as text
ArbUploads ==
    [arbitrary_define     |-> [command |-> <<"A", "R", "B", "D", "E", "F">>, csv |-> FALSE],
     arbitrary_define_csv |-> [command |-> <<"A", "R", "B", "D", "E", "F", "C", "S", "V">>, csv |-> TRUE],
     arbitrary_data       |-> [command |-> <<"A", "R", "B", "D", "A", "T", "A">>, csv |-> FALSE],
     arbitrary_data_csv   |-> [command |-> <<"A", "R", "B", "D", "A", "T", "A", "C", "S", "V">>, csv |-> TRUE]]

\* fg.<method>(cpd, csv) for a method of ArbUploads
arbitrary_upload(method, cpd, csv) ==
    IF ArbUploads[method].csv
    THEN arbitrary_send_data_csv(cpd, csv, ArbUploads[method].command,
                                 prepare_for_sending(cpd, csv))
    ELSE arbitrary_send_data(cpd, csv, ArbUploads[method].command,
                             prepare_for_sending(cpd, csv))

\* arbitrary_get_data_csv(cpd) when the device answers resp: [exc, tx, ret];
\* the answer of query is dropped and the method returns None
arbitrary_get_data_csv(cpd, resp) ==
    IF check_arb_name(cpd) # "none" THEN [exc |-> check_arb_name(cpd), tx |-> <<>>, ret |-> NoValue]
    ELSE [exc |-> "none",
          tx |-> <<Query(<<"A", "R", "B", "D", "A", "T", "A", "C", "S", "V", "?", " ">> \o cpd)>>,
          ret |-> NoValue]

\* the points written out in a waveform
MaxHead == 2

ArbNames == {<<>>, <<"a">>, <<"w", "a", "v", "e", "0", "0", "0", "1">>, <<"w", "a", "v", "e", "0", "0", "0", "1", "2">>}

ArbLevels == {0 - 2049, 0 - 2048, 2047, 2048}

ArbFills == {0, 2, 3, 4, 65534, 65535, 65536}

ArbHeads == UNION {[1..n -> ArbLevels] : n \in 0..MaxHead}

ArbResps == {<<"0", ",", "1", ",", "-", "1", ",", "0">>, <<>>}

\* one upload of a fresh session
WArbUpload(method, cpd, csv) ==
    /\ inst = "Wavetek39A" /\ pc = "start"
    /\ LET r == arbitrary_upload(method, cpd, csv) IN
       /\ tx' = r.tx
       /\ last' = Call("upload", method, r.exc)
    /\ arg' = V("arb", [cpd |-> cpd, csv |-> csv])
    /\ ret' = NoValue
    /\ pc' = "done"
    /\ calls' = calls + 1
    /\ UNCHANGED <<inst, input, kvars, nvars>>

\* one read-back of a fresh session
WArbGetDataCsv(cpd, resp) ==
    /\ inst = "Wavetek39A" /\ pc = "start"
    /\ LET r == arbitrary_get_data_csv(cpd, resp) IN
       /\ tx' = r.tx
       /\ last' = Call("arbitrary_get_data_csv", "none", r.exc)
       /\ ret' = r.ret
    /\ arg' = V("str", cpd)
    /\ input' = resp
    /\ pc' = "done"
    /\ calls' = calls + 1
    /\ UNCHANGED <<inst, kvars, nvars>>

WArbUploadStep ==
    \E method \in DOMAIN ArbUploads : \E cpd \in ArbNames : \E head \in ArbHeads :
        \E fill \in ArbFills : WArbUpload(method, cpd, [head |-> head, fill |-> fill])

WArbGetDataCsvStep == \E cpd \in ArbNames : \E resp \in ArbResps : WArbGetDataCsv(cpd, resp)

----------------------------------------------------------------------------
(* NewportError *)

\* the keys of NewportError.messageDict: '0'..'41' and 'x00'..'x32'
MessageKeys ==
    {IntStr(n) : n \in 0..41} \cup {<<"x">> \o ZeroPad(NatStr(n), 2) : n \in 0..32}

NotRecognised == <<"Error code not recognised">>

\* getMessage(code): messageDict.get(code, "Error code not recognised"); the text
\* of a table entry is represented by its key
getMessage(key) == IF key \in MessageKeys THEN <<"message">> \o key ELSE NotRecognised

\* str.format: a replacement field {i} with i beyond the arguments is an IndexError
FormatExc(fields, nargs) == IF \E i \in fields : i >= nargs THEN "IndexError" ELSE "none"

\* NewportError(errcode) for an int errcode: [exc, errcode, axis, message]; axis 0
\* stands for None (no axis).  exc is what the constructor itself raises.
NewportError_init(errcode) ==
    LET code == errcode % 100
        axis == errcode \div 100
    IN IF axis = 0
       THEN [exc |-> FormatExc({0, 1, 3}, 3), errcode |-> code, axis |-> 0,
             message |-> getMessage(IntStr(errcode))]
       ELSE [exc |-> FormatExc({0, 1, 2, 3}, 4), errcode |-> code, axis |-> axis,
             message |-> getMessage(<<"x">> \o IntStr(code))]

\* the largest error code constructed
MaxCode == 450

\* NewportError(c)
NErrorInit(c) ==
    /\ inst = "NewportError" /\ pc = "start"
    /\ LET e == NewportError_init(c) IN
       /\ last' = Call("NewportError", "none", e.exc)
       /\ ret' = (IF e.exc = "none" THEN e ELSE NoValue)
    /\ arg' = V("int", c)
    /\ tx' = <<>>
    /\ calls' = calls + 1
    /\ pc' = "done"
    /\ UNCHANGED <<inst, input, kvars, nvars>>

NErrorInitStep == \E c \in 0..MaxCode : NErrorInit(c)

----------------------------------------------------------------------------
(* NewportESP301: the command layer *)

PyNone == [none |-> TRUE, text |-> <<>>]

Text(t) == [none |-> FALSE, text |-> t]

NoCheck == [code |-> 0 - 1, exc |-> "none"]

TB == <<"T", "B", "?">>

\* the device's answer to TB?: "<code>, <timestamp>, <message>"
NDevTB(code) == IntStr(code) \o <<",", " ", "4", "5", ",", " ", "E", "R", "R">>

\* _execute_cmd(raw_cmd, errcheck) when the device answers a query with resp and
\* TB? with code: [exc, tx, resp, check]
execute_cmd(raw_cmd, errcheck, resp, code) ==
    LET isq == \E i \in 1..Len(raw_cmd) : raw_cmd[i] = "?"
        t1 == IF isq THEN Query(raw_cmd) ELSE Send(raw_cmd)
        qr == IF isq THEN Text(resp) ELSE PyNone
    IN IF ~errcheck THEN [exc |-> "none", tx |-> <<t1>>, resp |-> qr, check |-> NoCheck]
       ELSE LET parts == Split(NDevTB(code), ",")
                c == PyInt(parts[1])
            IN IF Len(parts) # 3 \/ ~c.ok
               THEN [exc |-> "ValueError", tx |-> <<t1, Query(TB)>>, resp |-> PyNone,
                     check |-> NoCheck]
               ELSE IF c.val # 0
               THEN LET e == NewportError_init(c.val)
                        x == IF e.exc # "none" THEN e.exc ELSE "NewportError"
                    IN [exc |-> x, tx |-> <<t1, Query(TB)>>, resp |-> PyNone,
                        check |-> [code |-> c.val, exc |-> x]]
               ELSE [exc |-> "none", tx |-> <<t1, Query(TB)>>, resp |-> qr,
                     check |-> [code |-> 0, exc |-> "none"]]

\* faulty variant: the target is left out of the command
newport_cmd_notarget(cmd, params, target, errcheck, imm, cmds, resp, code) ==
    LET raw_cmd == cmd \o Join(params, <<",">>) IN
    IF imm
    THEN execute_cmd(raw_cmd, errcheck, resp, code) @@ [cmds |-> cmds]
    ELSE [exc |-> "none", tx |-> <<>>, resp |-> PyNone, check |-> NoCheck,
          cmds |-> Append(cmds, raw_cmd)]

\* _newport_cmd(cmd, params, target, errcheck) with self._execute_immediately = imm
\* and self._command_list = cmds: [exc, tx, resp, check, cmds]
newport_cmd(cmd, params, target, errcheck, imm, cmds, resp, code) ==
    LET raw_cmd == target \o cmd \o Join(params, <<",">>) IN
    IF imm
    THEN execute_cmd(raw_cmd, errcheck, resp, code) @@ [cmds |-> cmds]
    ELSE [exc |-> "none", tx |-> <<>>, resp |-> PyNone, check |-> NoCheck,
          cmds |-> Append(cmds, raw_cmd)]

----------------------------------------------------------------------------
(* NewportESP301Axis *)

\* _unit_dict
UnitName(n) ==
    CASE n \in {0, 1} -> "count"
      [] n = 2 -> "mm"
      [] n = 3 -> "um"
      [] n = 4 -> "inch"
      [] n = 5 -> "mil"
      [] n = 6 -> "uin"
      [] n = 7 -> "deg"
      [] n = 8 -> "grad"
      [] n = 9 -> "rad"
      [] n = 10 -> "mrad"
      [] n = 11 -> "urad"

\* get_pq_unit(NewportESP301Units(n)): [exc, units]
UnitOfCode(n) ==
    IF n \in 0..11 THEN [exc |-> "none", units |-> UnitName(n)]
    ELSE [exc |-> "ValueError", units |-> "none"]

\* get_pq_unit(NewportESP301Units(int(r))) for the outcome r of the SN? command:
\* [exc, tx, check, cmds, units]
units_of_response(r) ==
    LET bad(e) == [exc |-> e, tx |-> r.tx, check |-> r.check, cmds |-> r.cmds, units |-> "none"]
    IN IF r.exc # "none" THEN bad(r.exc)
       ELSE IF r.resp.none THEN bad("TypeError")
       ELSE LET n == PyInt(r.resp.text) IN
            IF ~n.ok THEN bad("ValueError")
            ELSE LET u == UnitOfCode(n.val) IN
                 IF u.exc # "none" THEN bad(u.exc)
                 ELSE [exc |-> "none", tx |-> r.tx, check |-> r.check, cmds |-> r.cmds,
                       units |-> u.units]

\* the units getter of axis axis_id
units_getter(axis_id, imm, cmds, resp, code) ==
    units_of_response(newport_cmd(<<"S", "N", "?">>, <<>>, IntStr(axis_id), TRUE, imm, cmds,
                                  resp, code))

\* NewportESP301Axis(controller, axis_id): self._units = self.units
Axis_init(axis_id, imm, cmds, resp, code) == units_getter(axis_id, imm, cmds, resp, code)

----------------------------------------------------------------------------
(* _AxisList and NewportESP301.axis *)

\* the axis property: a new _AxisList, whose _axisDict is empty
NewportESP301_axis == <<>>

\* axis = self._axisDict.get(idx+1, a); self._axisDict[idx+1] = axis; return axis,
\* where a is the outcome of constructing the default NewportESP301Axis, whose
\* identity is fresh
AxisList_store(axisDict, idx, fresh, a) ==
    IF a.exc # "none"
    THEN [exc |-> a.exc, tx |-> a.tx, check |-> a.check, cmds |-> a.cmds, built |-> 1,
          dict |-> axisDict, handle |-> 0, units |-> "none"]
    ELSE LET h == IF idx + 1 \in DOMAIN axisDict THEN axisDict[idx + 1] ELSE fresh IN
         [exc |-> "none", tx |-> a.tx, check |-> a.check, cmds |-> a.cmds, built |-> 1,
          dict |-> [k \in DOMAIN axisDict \cup {idx + 1} |->
                      IF k = idx + 1 THEN h ELSE axisDict[k]],
          handle |-> h, units |-> a.units]

\* faulty variant: the test for a negative index is missing
AxisList_getitem_nocheck(axisDict, idx, fresh, imm, cmds, resp, code) ==
    AxisList_store(axisDict, idx, fresh, Axis_init(idx + 1, imm, cmds, resp, code))

\* _AxisList.__getitem__(idx) on a list whose _axisDict is axisDict.  The default
\* of dict.get is an argument: it is constructed whether or not the key is
\* present.
AxisList_getitem(axisDict, idx, fresh, imm, cmds, resp, code) ==
    IF idx < 0
    THEN [exc |-> "IndexError", tx |-> <<>>, check |-> NoCheck, cmds |-> cmds, built |-> 0,
          dict |-> axisDict, handle |-> 0, units |-> "none"]
    ELSE AxisList_store(axisDict, idx, fresh, Axis_init(idx + 1, imm, cmds, resp, code))

----------------------------------------------------------------------------
(* NewportESP301Axis: setters and move *)

\* float(assume_units(value, u).rescale(u).magnitude) for the unit u of the axis
\* (dim = "length") or that unit per s, s^2, s^3 (dim = "rate"): [exc, micro].
\* A bare number is taken to be in u; a quantity must convert to u.
AxisRescale(value, units, dim) ==
    CASE value.type = "float" -> [exc |-> "none", micro |-> value.value]
      [] value.type = "Quantity_mm" /\ dim = "length" /\ units = "mm" ->
            [exc |-> "none", micro |-> value.value]
      [] value.type = "Quantity_mm" /\ dim = "length" /\ units = "um" ->
            [exc |-> "none", micro |-> value.value * 1000]
      [] OTHER -> [exc |-> "ValueError", micro |-> 0]

\* the result of an axis method: [exc, tx, check, cmds, units]
AxisRaise(e, axis, cmds) ==
    [exc |-> e, tx |-> <<>>, check |-> NoCheck, cmds |-> cmds, units |-> axis.units]

AxisSent(r, axis) ==
    [exc |-> r.exc, tx |-> r.tx, check |-> r.check, cmds |-> r.cmds, units |-> axis.units]

\* the property setters of the axis, as the class body leaves them (acceleration
\* is defined twice, the second definition stays): the mnemonic, the dimension
\* of the value, and which name the body reads: "value" is the parameter,
\* "late" an undefined name after the conversion, "early" an undefined name in
\* the conversion.
AxisSetters ==
    [acceleration       |-> [cmd |-> <<"J", "K">>, dim |-> "rate",   reads |-> "value"],
     deceleration       |-> [cmd |-> <<"A", "G">>, dim |-> "rate",   reads |-> "late"],
     estop_deceleration |-> [cmd |-> <<"A", "E">>, dim |-> "rate",   reads |-> "late"],
     velocity           |-> [cmd |-> <<"V", "A">>, dim |-> "rate",   reads |-> "early"],
     max_velocity       |-> [cmd |-> <<"V", "U">>, dim |-> "rate",   reads |-> "early"],
     max_base_velocity  |-> [cmd |-> <<"V", "B">>, dim |-> "rate",   reads |-> "early"],
     max_acceleration   |-> [cmd |-> <<"A", "U">>, dim |-> "rate",   reads |-> "value"],
     home               |-> [cmd |-> <<"D", "H">>, dim |-> "length", reads |-> "value"],
     encoder_resolution |-> [cmd |-> <<"S", "U">>, dim |-> "length", reads |-> "value"],
     left_limit         |-> [cmd |-> <<"S", "L">>, dim |-> "length", reads |-> "value"],
     right_limit        |-> [cmd |-> <<"S", "R">>, dim |-> "length", reads |-> "value"]]

\* one of the setters of AxisSetters
float_setter(name, axis, value, imm, cmds, code) ==
    LET row == AxisSetters[name]
        v == AxisRescale(value, axis.units, row.dim)
    IN IF row.reads = "early" THEN AxisRaise("NameError", axis, cmds)
       ELSE IF v.exc # "none" THEN AxisRaise(v.exc, axis, cmds)
       ELSE IF row.reads = "late" THEN AxisRaise("NameError", axis, cmds)
       ELSE AxisSent(newport_cmd(row.cmd, <<FloatStr(v.micro)>>, IntStr(axis.axis_id),
                                 TRUE, imm, cmds, <<>>, code), axis)

\* the units setter: _units is assigned, then self._unit does not exist
units_setter(axis, unit, cmds) ==
    LET u == UnitOfCode(unit.value) IN
    IF u.exc # "none" THEN AxisRaise(u.exc, axis, cmds)
    ELSE [exc |-> "AttributeError", tx |-> <<>>, check |-> NoCheck, cmds |-> cmds,
          units |-> u.units]

\* the device's answer to AU?
NDevAU == <<"1", ".", "0">>

\* the setter stored under the name max_deacceleration: it reads the property
\* max_acceleration (AU?) and calls the quantity it gets
max_deacceleration_setter(axis, value, imm, cmds, code) ==
    LET v == AxisRescale(value, axis.units, "rate") IN
    IF v.exc # "none" THEN AxisRaise(v.exc, axis, cmds)
    ELSE LET r == newport_cmd(<<"A", "U", "?">>, <<>>, IntStr(axis.axis_id), TRUE, imm, cmds,
                              NDevAU, code)
         IN AxisSent([r EXCEPT !.exc = IF @ # "none" THEN @ ELSE "TypeError"], axis)

\* max_deceleration is a property without a setter
max_deceleration_setter(axis, cmds) == AxisRaise("AttributeError", axis, cmds)

AxisParams ==
    DOMAIN AxisSetters \cup {"units", "max_deacceleration", "max_deceleration"}

\* axis.<name> = value
axis_setter(name, axis, value, imm, cmds, code) ==
    CASE name = "units" -> units_setter(axis, value, cmds)
      [] name = "max_deacceleration" -> max_deacceleration_setter(axis, value, imm, cmds, code)
      [] name = "max_deceleration" -> max_deceleration_setter(axis, cmds)
      [] OTHER -> float_setter(name, axis, value, imm, cmds, code)

\* faulty variant: move does not ask for the error check
axis_move_nocheck(axis, position, absolute, imm, cmds, code) ==
    LET v == AxisRescale(position, axis.units, "length") IN
    IF v.exc # "none" THEN AxisRaise(v.exc, axis, cmds)
    ELSE AxisSent(newport_cmd(IF absolute THEN <<"P", "A">> ELSE <<"P", "R">>,
                              <<FloatStr(v.micro)>>, IntStr(axis.axis_id), FALSE, imm, cmds,
                              <<>>, code), axis)

\* axis.move(position, absolute)
axis_move(axis, position, absolute, imm, cmds, code) ==
    LET v == AxisRescale(position, axis.units, "length") IN
    IF v.exc # "none" THEN AxisRaise(v.exc, axis, cmds)
    ELSE AxisSent(newport_cmd(IF absolute THEN <<"P", "A">> ELSE <<"P", "R">>,
                              <<FloatStr(v.micro)>>, IntStr(axis.axis_id), TRUE, imm, cmds,
                              <<>>, code), axis)

\* axis.wait_for_motion(poll_interval, max_wait): the first statement converts
\* the undefined name position, so the polling loop is never entered
wait_for_motion(axis, poll_interval, max_wait, cmds) == AxisRaise("NameError", axis, cmds)

----------------------------------------------------------------------------
(* NewportESP301: the calls of a session *)

\* axis indices run to MaxAxes - 1, and down to -MaxAxes
MaxAxes == 2

\* the codes the device answers TB? with: none, a global one, one of axis 3
ErrCodes == {0, 7, 305}

\* the unit codes the device answers SN? with
DevUnits == {2, 7}

\* the device's answer to <axis_id>SN?
NDevSN(axis_id) ==
    IF axis_id \in DOMAIN ndevunit THEN IntStr(ndevunit[axis_id]) ELSE <<"0">>

NFloatArgs ==
    {V("float", 2500000), V("float", 0 - 1000), V("Quantity_mm", 1000000),
     V("Quantity_V", 1000000)}

NArgs(name) == IF name = "units" THEN {V("int", 3), V("int", 12)} ELSE NFloatArgs

\* what the access controller.axis[idx] with the outcome g leaves behind
NAxisAccess(idx, fresh, g) ==
    /\ tx' = g.tx
    /\ last' = Call("axis", "none", g.exc)
    /\ arg' = V("int", idx)
    /\ ret' = (IF g.exc = "none" THEN V("handle", g.handle) ELSE NoValue)
    /\ nbuilt' = g.built
    /\ ndict' = g.dict
    /\ ncmds' = g.cmds
    /\ ncheck' = g.check
    /\ nhandles' = (IF g.exc = "none" /\ g.handle = fresh
                    THEN Append(nhandles, [axis_id |-> idx + 1, units |-> g.units])
                    ELSE nhandles)
    /\ naccess' = (IF g.exc = "none"
                   THEN [naccess EXCEPT ![idx] = Append(@, g.handle)]
                   ELSE naccess)
    /\ nself' = 0
    /\ calls' = calls + 1
    /\ UNCHANGED <<inst, pc, input, kvars, nimm, ndevunit, nblock>>

\* controller.axis[idx]
NAxis(idx, code) ==
    /\ inst = "NewportESP301" /\ pc = "ready" /\ calls < MaxCalls
    /\ NAxisAccess(idx, Len(nhandles) + 1,
                   AxisList_getitem(NewportESP301_axis, idx, Len(nhandles) + 1, nimm, ncmds,
                                    NDevSN(idx + 1), code))

\* what a method of the handle h leaves behind
NAxisCall(h, op, param, value, r) ==
    /\ tx' = r.tx
    /\ last' = Call(op, param, r.exc)
    /\ arg' = value
    /\ ret' = NoValue
    /\ nhandles' = [nhandles EXCEPT ![h].units = r.units]
    /\ ncmds' = r.cmds
    /\ ncheck' = r.check
    /\ nbuilt' = 0
    /\ nself' = h
    /\ calls' = calls + 1
    /\ UNCHANGED <<inst, pc, input, kvars, nimm, ndict, naccess, ndevunit, nblock>>

\* handle.<name> = value
NSet(h, name, value, code) ==
    /\ inst = "NewportESP301" /\ pc = "ready" /\ calls < MaxCalls
    /\ h \in 1..Len(nhandles)
    /\ NAxisCall(h, "set", name, value,
                 axis_setter(name, nhandles[h], value, nimm, ncmds, code))

\* handle.move(position, absolute)
NMove(h, position, absolute, code) ==
    /\ inst = "NewportESP301" /\ pc = "ready" /\ calls < MaxCalls
    /\ h \in 1..Len(nhandles)
    /\ NAxisCall(h, "move", IF absolute THEN "absolute" ELSE "relative", position,
                 axis_move(nhandles[h], position, absolute, nimm, ncmds, code))

\* handle.wait_for_motion(poll_interval, max_wait)
NWaitForMotion(h, poll_interval, max_wait) ==
    /\ inst = "NewportESP301" /\ pc = "ready" /\ calls < MaxCalls
    /\ h \in 1..Len(nhandles)
    /\ NAxisCall(h, "wait_for_motion", "none", max_wait,
                 wait_for_motion(nhandles[h], poll_interval, max_wait, ncmds))

NWaitStep ==
    \E h \in 1..MaxCalls : \E max_wait \in {NoValue, V("float", 1000000)} :
        NWaitForMotion(h, V("float", 10000), max_wait)

NAxisStep == \E idx \in (0 - MaxAxes)..(MaxAxes - 1) : \E code \in ErrCodes : NAxis(idx, code)

NSetStep ==
    \E h \in 1..MaxCalls : \E name \in AxisParams : \E value \in NArgs(name) :
        \E code \in ErrCodes : NSet(h, name, value, code)

NMoveStep ==
    \E h \in 1..MaxCalls : \E position \in NFloatArgs : \E absolute \in BOOLEAN :
        \E code \in ErrCodes : NMove(h, position, absolute, code)

\* the program is in no with-block of the controller
NoBlock == [kind |-> "none", errcheck |-> FALSE, id |-> 0]

\* the controller after NewportESP301(filelike)
NControllerInit ==
    /\ nimm = TRUE
    /\ ncmds = <<>>
    /\ nhandles = <<>>
    /\ ndict = <<>>
    /\ nbuilt = 0
    /\ naccess = [i \in 0..(MaxAxes - 1) |-> <<>>]
    /\ ncheck = NoCheck
    /\ nself = 0
    /\ nblock = NoBlock

\* a session with another driver: no Newport device answers
NIdle == NControllerInit /\ ndevunit = [a \in 1..MaxAxes |-> 2]

NInitVars == NControllerInit /\ ndevunit \in [1..MaxAxes -> DevUnits]

----------------------------------------------------------------------------
(* NewportESP301: the with-blocks execute_bulk_command and define_program.  *)
(* Entering a block and leaving it are calls of the session; a block is     *)
(* left normally or by an exception raised in its body.                     *)

Sep == <<" ", ";", " ">>

\* reduce(lambda x, y: x + ' ; ' + y + ' ; ', [acc] + rest)
RECURSIVE reduce(_, _)
reduce(acc, rest) ==
    IF Len(rest) = 0 THEN acc
    ELSE reduce(acc \o Sep \o rest[1] \o Sep, Tail(rest))

\* the rest of execute_bulk_command once _execute_cmd ended as r
bulk_flushed(cmds, r) ==
    IF r.exc # "none"
    THEN [exc |-> r.exc, tx |-> r.tx, cmds |-> cmds, check |-> r.check, imm |-> FALSE]
    ELSE [exc |-> "none", tx |-> r.tx, cmds |-> <<>>, check |-> r.check, imm |-> TRUE]

\* execute_bulk_command(errcheck) after the yield, with self._command_list = cmds:
\* [exc, tx, cmds, check, imm]; reduce of an empty list is a TypeError
execute_bulk_command_exit(cmds, errcheck, code) ==
    IF Len(cmds) = 0
    THEN [exc |-> "TypeError", tx |-> <<>>, cmds |-> cmds, check |-> NoCheck, imm |-> FALSE]
    ELSE bulk_flushed(cmds, execute_cmd(reduce(cmds[1], Tail(cmds)), errcheck, <<>>, code))

\* the finally clause of define_program, _newport_cmd("QP") having ended as r,
\* after the transmissions sent and with the exception pending: [exc, tx, cmds,
\* check, open]
program_quit(sent, pending, r) ==
    [exc |-> IF r.exc # "none" THEN r.exc ELSE pending,
     tx |-> sent \o r.tx, cmds |-> r.cmds, check |-> r.check, open |-> FALSE]

\* define_program from the try on, _newport_cmd("EP") having ended as r
program_entered(sent, r, imm, code) ==
    IF r.exc = "none"
    THEN [exc |-> "none", tx |-> sent \o r.tx, cmds |-> r.cmds, check |-> r.check,
          open |-> TRUE]
    ELSE program_quit(sent \o r.tx, r.exc,
                      newport_cmd(<<"Q", "P">>, <<>>, <<>>, TRUE, imm, r.cmds, <<>>, code))

\* define_program after _newport_cmd("XX") ended as r
program_erased(program_id, r, imm, code2, code3) ==
    IF r.exc # "none"
    THEN [exc |-> r.exc, tx |-> r.tx, cmds |-> r.cmds, check |-> r.check, open |-> FALSE]
    ELSE program_entered(r.tx,
                         newport_cmd(<<"E", "P">>, <<>>, IntStr(program_id), TRUE, imm,
                                     r.cmds, <<>>, code2),
                         imm, code3)

\* define_program(program_id) up to the yield; the device answers the error
\* checks of XX, EP and QP with code1, code2, code3
define_program(program_id, imm, cmds, code1, code2, code3) ==
    IF program_id \notin 1..100
    THEN [exc |-> "ValueError", tx |-> <<>>, cmds |-> cmds, check |-> NoCheck, open |-> FALSE]
    ELSE program_erased(program_id,
                        newport_cmd(<<"X", "X">>, <<>>, IntStr(program_id), TRUE, imm, cmds,
                                    <<>>, code1),
                        imm, code2, code3)

\* define_program after the yield: the block ended with the exception pending
define_program_exit(pending, imm, cmds, code) ==
    program_quit(<<>>, pending,
                 newport_cmd(<<"Q", "P">>, <<>>, <<>>, TRUE, imm, cmds, <<>>, code))

\* the calls of a session with blocks
MaxSteps == 6

\* the codes the device answers TB? with in a session with blocks
BlockCodes == {0, 305}

ProgramIds == {0, 1, 100, 101}

\* what entering or leaving a block with the outcome r leaves behind
NBlockCall(op, param, value, r, imm, block) ==
    /\ tx' = r.tx
    /\ last' = Call(op, param, r.exc)
    /\ arg' = value
    /\ ret' = NoValue
    /\ ncmds' = r.cmds
    /\ ncheck' = r.check
    /\ nimm' = imm
    /\ nblock' = block
    /\ nbuilt' = 0
    /\ nself' = 0
    /\ calls' = calls + 1
    /\ UNCHANGED <<inst, pc, input, kvars, nhandles, ndict, naccess, ndevunit>>

\* with controller.execute_bulk_command(errcheck):
NBulkEnter(errcheck) ==
    /\ inst = "NewportESP301" /\ pc = "ready" /\ calls < MaxSteps
    /\ nblock = NoBlock
    /\ NBlockCall("execute_bulk_command", "enter", NoValue,
                  [exc |-> "none", tx |-> <<>>, cmds |-> ncmds, check |-> NoCheck],
                  FALSE, [kind |-> "bulk", errcheck |-> errcheck, id |-> 0])

\* the end of the bulk block is reached
NBulkExit(code) ==
    /\ inst = "NewportESP301" /\ pc = "ready" /\ calls < MaxSteps
    /\ nblock.kind = "bulk"
    /\ \E r \in {execute_bulk_command_exit(ncmds, nblock.errcheck, code)} :
          NBlockCall("execute_bulk_command", "exit", NoValue, r, r.imm, NoBlock)

\* the body of the bulk block raises: nothing follows the yield
NBulkRaise ==
    /\ inst = "NewportESP301" /\ pc = "ready" /\ calls < MaxSteps
    /\ nblock.kind = "bulk"
    /\ NBlockCall("execute_bulk_command", "raise", NoValue,
                  [exc |-> "Exception", tx |-> <<>>, cmds |-> ncmds, check |-> NoCheck],
                  nimm, NoBlock)

\* with controller.define_program(program_id):
NProgramEnter(program_id, code1, code2, code3) ==
    /\ inst = "NewportESP301" /\ pc = "ready" /\ calls < MaxSteps
    /\ nblock = NoBlock
    /\ \E r \in {define_program(program_id, nimm, ncmds, code1, code2, code3)} :
          NBlockCall("define_program", "enter", V("int", program_id), r, nimm,
                     IF r.open THEN [kind |-> "program", errcheck |-> TRUE, id |-> program_id]
                     ELSE NoBlock)

\* the program block is left, normally or by an exception raised in its body
NProgramExit(pending, code) ==
    /\ inst = "NewportESP301" /\ pc = "ready" /\ calls < MaxSteps
    /\ nblock.kind = "program"
    /\ NBlockCall("define_program", IF pending = "none" THEN "exit" ELSE "raise",
                  V("int", nblock.id),
                  define_program_exit(pending, nimm, ncmds, code), nimm, NoBlock)

\* handle.move(-0.001, absolute), inside a block or outside
NBlockMove(h, absolute, code) ==
    /\ inst = "NewportESP301" /\ pc = "ready" /\ calls < MaxSteps
    /\ h \in 1..Len(nhandles)
    /\ NAxisCall(h, "move", IF absolute THEN "absolute" ELSE "relative", V("float", 0 - 1000),
                 axis_move(nhandles[h], V("float", 0 - 1000), absolute, nimm, ncmds, code))

NBulkEnterStep == \E errcheck \in BOOLEAN : NBulkEnter(errcheck)

NBulkExitStep == \E code \in BlockCodes : NBulkExit(code)

NProgramEnterStep ==
    \E program_id \in ProgramIds : \E code1, code2, code3 \in BlockCodes :
        NProgramEnter(program_id, code1, code2, code3)

NProgramExitStep ==
    \E pending \in {"none", "Exception"} : \E code \in BlockCodes : NProgramExit(pending, code)

NBlockMoveStep ==
    \E h \in 1..MaxCalls : \E absolute \in BOOLEAN : \E code \in BlockCodes :
        NBlockMove(h, absolute, code)

----------------------------------------------------------------------------
(* NewportESP301: the home search of the controller and of an axis handle *)

\* _home(axis, search_mode, errcheck)
home(axis, search_mode, errcheck, imm, cmds, code) ==
    newport_cmd(<<"O", "R">>, <<IntStr(search_mode)>>, IntStr(axis), errcheck, imm, cmds,
                <<>>, code)

\* NewportESP301.search_for_home(axis, search_mode, errcheck)
search_for_home(axis, search_mode, errcheck, imm, cmds, code) ==
    home(1, search_mode, errcheck, imm, cmds, code)

\* NewportESP301Axis.search_for_home(search_mode)
axis_search_for_home(axis, search_mode, imm, cmds, code) ==
    AxisSent(home(axis.axis_id, search_mode, TRUE, imm, cmds, code), axis)

\* the search modes given: zero_position_count and neg_limit_signal
HomeModes == {0, 4}

\* controller.search_for_home(axis, search_mode, errcheck)
NSearchForHome(axis, search_mode, errcheck, code) ==
    /\ inst = "NewportESP301" /\ pc = "ready" /\ calls < MaxCalls
    /\ NBlockCall("search_for_home", "controller", V("int", axis),
                  search_for_home(axis, search_mode, errcheck, nimm, ncmds, code),
                  nimm, nblock)

\* handle.search_for_home(search_mode)
NAxisSearchForHome(h, search_mode, code) ==
    /\ inst = "NewportESP301" /\ pc = "ready" /\ calls < MaxCalls
    /\ h \in 1..Len(nhandles)
    /\ NAxisCall(h, "search_for_home", "axis", V("int", search_mode),
                 axis_search_for_home(nhandles[h], search_mode, nimm, ncmds, code))

NSearchForHomeStep ==
    \E axis \in 1..(MaxAxes + 1) : \E search_mode \in HomeModes : \E errcheck \in BOOLEAN :
        \E code \in ErrCodes : NSearchForHome(axis, search_mode, errcheck, code)

NAxisSearchForHomeStep ==
    \E h \in 1..MaxCalls : \E search_mode \in HomeModes : \E code \in ErrCodes :
        NAxisSearchForHome(h, search_mode, code)

----------------------------------------------------------------------------
(* Specifications *)

\* a Keithley775A session of property sets and gets
InitK == inst = "Keithley775A" /\ SessionInit("ready", <<>>) /\ KInitVars /\ NIdle

NextK == KSetStep \/ KGetStep

SpecK == InitK /\ [][NextK]_vars

\* one bounds-checked Keithley775A set
InitRange == inst = "Keithley775A" /\ SessionInit("start", <<>>) /\ KInitVars /\ NIdle

SpecRange == InitRange /\ [][KSetRangeStep]_vars

\* one decoding of a status response
InitParse ==
    /\ inst = "Keithley775A"
    /\ \E text \in RespSet : SessionInit("start", text)
    /\ KInitVars /\ NIdle

NextParse == KParseOperatingMode \/ KParseErrorStatus

SpecParse == InitParse /\ [][NextParse]_vars

\* a Keithley775A from its construction on: the time parameters, the mode and
\* the readings
InitC == inst = "Keithley775A" /\ SessionInit("new", <<>>) /\ KNewVars /\ NIdle

NextC == KConstructStep \/ KSetTimeStep \/ KGetReadingStep

SpecC == InitC /\ [][NextC]_vars

\* one construction of a NewportError
InitErr == inst = "NewportError" /\ SessionInit("start", <<>>) /\ KInitVars /\ NIdle

SpecErr == InitErr /\ [][NErrorInitStep]_vars

\* a NewportESP301 session
InitN == inst = "NewportESP301" /\ SessionInit("ready", <<>>) /\ KInitVars /\ NInitVars

NextN == NAxisStep \/ NSetStep \/ NMoveStep \/ NWaitStep

SpecN == InitN /\ [][NextN]_vars

\* a NewportESP301 session with bulk and program blocks
InitB ==
    /\ inst = "NewportESP301" /\ SessionInit("ready", <<>>) /\ KInitVars
    /\ NControllerInit /\ ndevunit = [a \in 1..MaxAxes |-> 2]

NextB ==
    \/ NAxisStep
    \/ NBulkEnterStep \/ NBulkExitStep \/ NBulkRaise
    \/ NProgramEnterStep \/ NProgramExitStep
    \/ NBlockMoveStep

SpecB == InitB /\ [][NextB]_vars

\* a NewportESP301 session with home searches
NextH == NAxisStep \/ NSearchForHomeStep \/ NAxisSearchForHomeStep

SpecH == InitN /\ [][NextH]_vars

\* one call of a Wavetek39A about an arbitrary waveform
InitW == inst = "Wavetek39A" /\ SessionInit("start", <<>>) /\ KInitVars /\ NIdle

NextW == WArbUploadStep \/ WArbGetDataCsvStep

SpecW == InitW /\ [][NextW]_vars

\* a Keithley775A session with mode sets, resets, readings and measurements
NextD ==
    \/ KSetModeStep \/ KResetStep \/ KReadStep \/ KMeasureStep
    \/ KGetReadingStep \/ KGetStep

SpecD == InitK /\ [][NextD]_vars

\* a Keithley775A session with triggers; the driver's own steps of a waiting
\* trigger are taken when they can be
NextT == KTriggerStep \/ KServiceRequestStep \/ KWaitForSrq \/ KReadingDone

SpecT == InitK /\ [][NextT]_vars /\ WF_vars(KWaitForSrq) /\ WF_vars(KReadingDone)

\* a session with any one of the three drivers
Init ==
    /\ inst \in {"Keithley775A", "Wavetek39A", "NewportESP301"}
    /\ SessionInit("ready", <<>>)
    /\ KInitVars
    /\ IF inst = "NewportESP301" THEN NInitVars ELSE NIdle

Next == NextK \/ WSetAmplitudeStep \/ NextN

Spec == Init /\ [][Next]_vars

----------------------------------------------------------------------------
(* Claims about the Keithley775A *)

\* C1: displayed_digits (3..9) and srq_mask (0..59): an integer outside the range
\* raises and nothing is transmitted (the instrument's word is untouched); an
\* integer inside the range transmits exactly N<n>X respectively M<n>X.
C1_BoundsChecked ==
    (last.op = "set" /\ last.param \in {"displayed_digits", "srq_mask"} /\ arg.type = "int") =>
        LET digits == last.param = "displayed_digits"
            lo == IF digits THEN 3 ELSE 0
            hi == IF digits THEN 9 ELSE 59
            letter == IF digits THEN "N" ELSE "M"
        IN IF lo <= arg.value /\ arg.value <= hi
           THEN last.exc = "none" /\ tx = <<Send(<<letter>> \o IntStr(arg.value) \o <<"X">>)>>
           ELSE last.exc = "RuntimeError" /\ tx = <<>> /\ kdev = InitWord

C1_Witness ==
    /\ last = Call("set", "srq_mask", "RuntimeError")
    /\ arg = V("int", 60)
    /\ tx = <<>>

\* C3: a status response that does not start with '775' makes parse_operating_mode
\* and parse_error_status raise (the assert fails), whatever follows and however
\* long it is; nothing is decoded and the one request U<n>X + read is not repeated.
C3_WrongPrefixRaises ==
    (pc = "done" /\ last.op \in {"parse_operating_mode", "parse_error_status"}
       /\ ~(Len(input) >= 3 /\ input[1] = "7" /\ input[2] = "7" /\ input[3] = "5")) =>
        /\ last.exc = "AssertionError"
        /\ ret = NoValue
        /\ Len(tx) = 2
        /\ tx[1].kind = "send" /\ tx[2] = Query(<<>>)

C3_Witness ==
    /\ pc = "done"
    /\ last = Call("parse_operating_mode", "none", "AssertionError")
    /\ input = <<"9", "9", "9">> \o SubSeq(InitWord, 4, Len(InitWord))

\* the response ends with the literal 00000
EndsWith00000(s) == Len(s) >= 5 /\ \A i \in (Len(s) - 4)..Len(s) : s[i] = "0"

\* C4: parse_error_status accepts a response iff it starts with '775' and ends
\* with '00000'; an accepted response yields exactly the four booleans IDDC,
\* IDDCO, gate_error, self_test_error, true iff the character at offset 3, 4, 5,
\* 6 is '1'; any other response raises and yields no mapping.
C4_ErrorStatus ==
    (pc = "done" /\ last.op = "parse_error_status") =>
        LET accepted == /\ Len(input) >= 3
                        /\ input[1] = "7" /\ input[2] = "7" /\ input[3] = "5"
                        /\ EndsWith00000(input)
        IN IF accepted
           THEN /\ last.exc = "none"
                /\ ret = [IDDC |-> input[4] = "1", IDDCO |-> input[5] = "1",
                          gate_error |-> input[6] = "1", self_test_error |-> input[7] = "1"]
           ELSE last.exc = "AssertionError" /\ ret = NoValue

C4_Witness ==
    /\ pc = "done"
    /\ last = Call("parse_error_status", "none", "none")
    /\ input = <<"7", "7", "5", "0", "1", "0", "1", "0", "0", "0", "0", "0">>
    /\ ret.IDDCO /\ ret.self_test_error /\ ~ret.IDDC /\ ~ret.gate_error

\* C5: with an instrument that stores the ordinal of a command under the
\* command's mnemonic, reading an enum-valued parameter after it was set to a
\* member v returns v.
C5_RoundTrip ==
    (last.op = "get" /\ last.param \in KEnumParams /\ kset[last.param] # NoValue) =>
        last.exc = "none" /\ ret = kset[last.param]

C5_Witness ==
    /\ last = Call("get", "totalize", "none")
    /\ kset["totalize"] = V("Totalize", 1)
    /\ ret = V("Totalize", 1)


----------------------------------------------------------------------------
(* Claims about all three drivers *)

IsSetCall == last.op \in {"set", "move"}

\* C2, as stated: a parameter-set call that returns normally has transmitted
\* exactly once, and one that raises has transmitted nothing.
C2_OneTransmission ==
    IsSetCall => IF last.exc = "none" THEN Len(tx) = 1 ELSE tx = <<>>

\* C2: a parameter-set call that returns normally has transmitted exactly one
\* command on a Keithley775A; exactly two, AMPUNIT <unit> then AMPL <magnitude>,
\* in Wavetek39A._set_amplitude_; exactly two, the command then the query TB?, on
\* a NewportESP301 axis in immediate mode.  A call that raises has transmitted
\* nothing, except on the NewportESP301 where it raises either before the
\* transport (nothing transmitted) or after the command and its TB?.
C2_TransmissionsPerSet ==
    IsSetCall =>
        CASE inst = "Keithley775A" ->
                IF last.exc = "none" THEN Len(tx) = 1 /\ tx[1].kind = "send" ELSE tx = <<>>
          [] inst = "Wavetek39A" ->
                IF last.exc = "none"
                THEN /\ Len(tx) = 2
                     /\ tx[1] = Send(<<"A", "M", "P", "U", "N", "I", "T", " ">>
                                     \o UNIT_MNEMONICS(last.param).text)
                     /\ tx[2] = Send(<<"A", "M", "P", "L", " ">> \o FloatStr(arg.value))
                ELSE tx = <<>>
          [] inst = "NewportESP301" ->
                /\ last.exc = "none" => Len(tx) = 2
                /\ tx = <<>> \/ (Len(tx) = 2 /\ tx[2] = Query(TB))
                /\ tx = <<>> <=> ncheck = NoCheck

C2_Witness ==
    /\ inst = "NewportESP301"
    /\ last = Call("move", "relative", "none")
    /\ arg = V("float", 0 - 1000)
    /\ tx = <<Send(<<"1", "P", "R", "-", "0", ".", "0", "0", "1">>), Query(TB)>>

----------------------------------------------------------------------------
(* Claims about the NewportESP301 *)

\* C6, as stated: every access controller.axis[i] returns the handle the first
\* access returned, and an access after the first constructs nothing and sends
\* nothing.
C6_HandleCached ==
    /\ \A i \in DOMAIN naccess : \A j \in 1..Len(naccess[i]) : naccess[i][j] = naccess[i][1]
    /\ (last.op = "axis" /\ last.exc = "none" /\ Len(naccess[arg.value]) > 1) =>
           tx = <<>> /\ nbuilt = 0

\* C7: controller.axis[i] with i < 0 raises IndexError, returns no handle,
\* constructs none, leaves the cache of the list empty and the handles and the
\* access history as they were, and transmits nothing.
C7_NegativeIndex ==
    [][(last'.op = "axis" /\ arg'.value < 0 /\ calls' = calls + 1) =>
          /\ last'.exc = "IndexError"
          /\ ret' = NoValue
          /\ nbuilt' = 0
          /\ ndict' = <<>>
          /\ nhandles' = nhandles
          /\ naccess' = naccess
          /\ tx' = <<>>]_vars

C7_Witness ==
    /\ last = Call("axis", "none", "IndexError")
    /\ arg = V("int", 0 - 1)
    /\ calls = 2
    /\ Len(nhandles) = 1
    /\ tx = <<>>

\* C8, as stated: NewportError(c) completes for every c >= 0 and carries the
\* sub-code c % 100 and the axis c // 100 (0: no axis).
C8_Decomposes ==
    (pc = "done" /\ last.op = "NewportError") =>
        /\ last.exc = "none"
        /\ ret.errcode = arg.value % 100
        /\ ret.axis = arg.value \div 100

\* C9, as stated: after a command sent with error checking, a TB? code of 0 lets
\* the call go on, and any other code reaches the caller as a NewportError.
C9_NonZeroRaisesNewportError ==
    ncheck # NoCheck =>
        IF ncheck.code = 0 THEN ncheck.exc = "none"
        ELSE ncheck.exc = "NewportError" /\ last.exc = "NewportError"

\* the codes without an entry in the message table
Unlisted(c) == IF c \div 100 = 0 THEN c > 41 ELSE c % 100 > 32

\* C10, as stated: NewportError(c) for a code without an entry in the message
\* table completes and carries the text "Error code not recognised".
C10_UnknownCodeDecodes ==
    (pc = "done" /\ last.op = "NewportError" /\ Unlisted(arg.value)) =>
        last.exc = "none" /\ ret.message = NotRecognised

----------------------------------------------------------------------------
(* Claims about the Keithley775A from its construction on *)

\* C11, as stated: gate_time and delay_time set to a bare number x transmit
\* exactly G<x with six decimals>X, respectively D...X, and a gate_time read
\* answered with "2.500000" returns 2.5 s.
C11_BareNumberAccepted ==
    /\ (last.op = "set" /\ last.param \in {"gate_time", "delay_time"} /\ arg.type = "float") =>
           /\ last.exc = "none"
           /\ tx = <<Send(<<(IF last.param = "gate_time" THEN "G" ELSE "D")>>
                          \o FormatF(arg.value) \o <<"X">>)>>
    /\ (last.op = "get" /\ last.param = "gate_time"
          /\ input = <<"2", ".", "5", "0", "0", "0", "0", "0">>) =>
           last.exc = "none" /\ ret = V("Quantity_s", 2500000)

\* C12: a set of gate_time or delay_time to a voltage raises (TypeError),
\* transmits nothing, and leaves the cached unit, the data-control selection and
\* the instrument's settings as they were.
C12_UnconvertibleRejected ==
    [][(last'.op = "set" /\ last'.param \in {"gate_time", "delay_time"}
          /\ arg'.type = "Quantity_V" /\ calls' = calls + 1) =>
            /\ last'.exc = "TypeError"
            /\ tx' = <<>>
            /\ kunit' = kunit
            /\ kdc' = kdc
            /\ kdev' = kdev]_vars

C12_Witness ==
    /\ last = Call("set", "delay_time", "TypeError")
    /\ arg = V("Quantity_V", 1000000)
    /\ kdc = V("DataControl", 1)
    /\ calls = 2
    /\ tx = <<>>

\* C20, as stated: the constructor completes on every communicator: it resets
\* the instrument, then transmits Y4X, then P3X, and leaves the unit Hz and the
\* data-control selection measuring_buffer.
C20_ConstructorCompletes ==
    last.op = "__init__" =>
        /\ last.exc = "none"
        /\ Len(tx) = 3
        /\ tx[2] = Send(<<"Y", "4", "X">>)
        /\ tx[3] = Send(<<"P", "3", "X">>)
        /\ kdev = InitWord
        /\ kunit = "Hz"
        /\ kdc = V("DataControl", 0)

----------------------------------------------------------------------------
(* Claims about the NewportESP301 axis methods *)

\* C13: a move of the handle obtained as controller.axis[i] to a bare number p
\* issues the command <i+1>PA<p> when absolute and <i+1>PR<p> when relative: in
\* immediate mode it is the first transmission of the call, in bulk mode the
\* command the call appends to the buffer.
C13_MoveTargetsAxis ==
    (last.op = "move" /\ arg.type = "float") =>
        \E i \in DOMAIN naccess :
            /\ \E j \in 1..Len(naccess[i]) : naccess[i][j] = nself
            /\ LET cmd == IntStr(i + 1)
                          \o (IF last.param = "absolute" THEN <<"P", "A">> ELSE <<"P", "R">>)
                          \o FloatStr(arg.value)
               IN IF nimm THEN Len(tx) >= 1 /\ tx[1] = Send(cmd)
                  ELSE tx = <<>> /\ Len(ncmds) >= 1 /\ ncmds[Len(ncmds)] = cmd

C13_Witness ==
    /\ last.op = "move" /\ last.param = "absolute"
    /\ arg = V("float", 2500000)
    /\ naccess[1] = <<1>>
    /\ nself = 1
    /\ tx[1] = Send(<<"2", "P", "A", "2", ".", "5">>)

\* C16, as stated: wait_for_motion polls is_motion_done (the query <id>MD?) at
\* least once and ends either normally or, with max_wait given, with IOError.
C16_WaitPolls ==
    last.op = "wait_for_motion" =>
        /\ Len(tx) >= 1
        /\ tx[1] = Query(IntStr(nhandles[nself].axis_id) \o <<"M", "D", "?">>)
        /\ last.exc \in {"none", "IOError"}
        /\ last.exc = "IOError" => arg # NoValue

\* C17, as stated: handle.units = n for a unit code n in 0..11 transmits
\* <axis id>SN<n> and leaves the cached unit of the handle at the unit of n.
C17_UnitsSet ==
    (last.op = "set" /\ last.param = "units" /\ arg.value \in 0..11) =>
        /\ last.exc = "none"
        /\ Len(tx) >= 1
        /\ tx[1] = Send(IntStr(nhandles[nself].axis_id) \o <<"S", "N">> \o IntStr(arg.value))
        /\ nhandles[nself].units = UnitName(arg.value)

----------------------------------------------------------------------------
(* Claims about the NewportESP301 with-blocks *)

WithoutSpaces(s) == SelectSeq(s, LAMBDA c : c # " ")

\* the commands of a compound string: its parts between the ';', without the
\* surrounding spaces; a separator that ends the string opens no command
BatchCommands(s) ==
    LET parts == Split(s, ";")
        cmds == [i \in 1..Len(parts) |-> WithoutSpaces(parts[i])]
    IN IF Len(cmds) > 1 /\ cmds[Len(cmds)] = <<>> THEN SubSeq(cmds, 1, Len(cmds) - 1) ELSE cmds

\* C14: a move issued while a bulk block is open transmits nothing; when the
\* block ends normally with commands buffered, one compound string is sent
\* whose commands between the ';' are the buffered commands, each once, in
\* issue order, none empty, followed by at most one TB? query.
C14_BatchHoldsEachCommandOnce ==
    [][/\ (nblock.kind = "bulk" /\ last'.op = "move" /\ calls' = calls + 1) => tx' = <<>>
       /\ (nblock.kind = "bulk" /\ last'.op = "execute_bulk_command" /\ last'.param = "exit"
             /\ ncmds # <<>>) =>
               /\ Len(tx') \in {1, 2}
               /\ BatchCommands(tx'[1].cmd) = ncmds
               /\ Len(tx') = 2 => tx'[2] = Query(TB)]_vars

\* C15: once a bulk block has been left, by its end or by an exception raised
\* in its body, the controller executes immediately and its command list is
\* empty.
C15_ImmediateAfterBlock ==
    (last.op = "execute_bulk_command" /\ last.param \in {"exit", "raise"}) =>
        nimm /\ ncmds = <<>>

EP(program_id) == Send(IntStr(program_id) \o <<"E", "P">>)

QP == Send(<<"Q", "P">>)

\* C18: define_program with an id outside 1..100 raises ValueError and
\* transmits nothing; with a valid id it transmits <id>XX first and <id>EP
\* after it, a QP follows every <id>EP whose block was not opened, and leaving
\* the block transmits QP.
C18_ProgramBracketed ==
    /\ (last.op = "define_program" /\ last.param = "enter" /\ arg.value \notin 1..100) =>
          last.exc = "ValueError" /\ tx = <<>>
    /\ (last.op = "define_program" /\ last.param = "enter" /\ arg.value \in 1..100) =>
          /\ Len(tx) >= 1 /\ tx[1] = Send(IntStr(arg.value) \o <<"X", "X">>)
          /\ nblock.kind = "program" =>
                /\ \E i \in 2..Len(tx) : tx[i] = EP(arg.value)
                /\ \A i \in 1..Len(tx) : tx[i] # QP
          /\ nblock.kind # "program" =>
                \A i \in 1..Len(tx) : tx[i] = EP(arg.value) =>
                    \E j \in (i + 1)..Len(tx) : tx[j] = QP
    /\ (last.op = "define_program" /\ last.param \in {"exit", "raise"}) =>
          \E i \in 1..Len(tx) : tx[i] = QP

\* C19: no TB? query is transmitted between <id>EP and QP: none after <id>EP
\* by define_program unless QP came first, and none by a move issued while the
\* program block is open.
C19_NoErrorCheckWhileRecording ==
    /\ (last.op = "define_program" /\ last.param = "enter") =>
          \A i \in 1..Len(tx) : \A j \in (i + 1)..Len(tx) :
              (tx[i] = EP(arg.value) /\ tx[j] = Query(TB)) =>
                  \E k \in (i + 1)..(j - 1) : tx[k] = QP
    /\ (nblock.kind = "program" /\ last.op = "move") =>
          \A i \in 1..Len(tx) : tx[i] # Query(TB)

\* C29: a bulk block in which no command is issued, entered with an empty
\* command list, ends without raising, transmits nothing and leaves the
\* controller executing immediately with an empty command list.
C29_EmptyBlockExits ==
    [][(/\ last.op = "execute_bulk_command" /\ last.param = "enter" /\ ncmds = <<>>
        /\ last'.op = "execute_bulk_command" /\ last'.param = "exit") =>
            /\ last'.exc = "none" /\ tx' = <<>> /\ nimm' /\ ncmds' = <<>>]_vars

----------------------------------------------------------------------------
(* Claims about the NewportESP301 axis setters and the home search *)

\* the mnemonic each unit-valued parameter of an axis is expected under
SetterMnemonics ==
    [acceleration       |-> <<"A", "C">>,
     deceleration       |-> <<"A", "G">>,
     estop_deceleration |-> <<"A", "E">>,
     velocity           |-> <<"V", "A">>,
     max_velocity       |-> <<"V", "U">>,
     max_base_velocity  |-> <<"V", "B">>,
     max_acceleration   |-> <<"A", "U">>,
     home               |-> <<"D", "H">>,
     left_limit         |-> <<"S", "L">>,
     right_limit        |-> <<"S", "R">>,
     encoder_resolution |-> <<"S", "U">>]

\* C24: a unit-valued setter of the handle with axis id k, given the number v
\* while the controller executes immediately, raises nothing of its own and
\* transmits first k, its own mnemonic and v.
C24_SetterSendsOwnMnemonic ==
    (/\ last.op = "set" /\ last.param \in DOMAIN SetterMnemonics
     /\ arg.type = "float" /\ nimm /\ nself \in 1..Len(nhandles)) =>
        /\ last.exc \in {"none", "NewportError"}
        /\ Len(tx) >= 1
        /\ tx[1] = Send(IntStr(nhandles[nself].axis_id) \o SetterMnemonics[last.param]
                        \o FloatStr(arg.value))

\* C25: the home search of the controller for axis k transmits first k, OR and
\* the search mode, as the home search of a handle does with its own axis id.
C25_HomeSearchTargetsAxis ==
    (last.op = "search_for_home" /\ nimm) =>
        /\ Len(tx) >= 1
        /\ \E search_mode \in HomeModes :
              tx[1] = Send(IntStr(IF last.param = "controller" THEN arg.value
                                  ELSE nhandles[nself].axis_id)
                           \o <<"O", "R">> \o IntStr(search_mode))

----------------------------------------------------------------------------
(* Claims about the Wavetek39A arbitrary waveforms *)

C22_DataReturned ==
    last.op = "arbitrary_get_data_csv" =>
        IF Len(arg.value) \in 1..8
        THEN /\ last.exc = "none"
             /\ tx = <<Query(<<"A", "R", "B", "D", "A", "T", "A", "C", "S", "V", "?", " ">> \o arg.value)>>
             /\ ret = V("str", input)
        ELSE last.exc = "RuntimeError" /\ tx = <<>>

----------------------------------------------------------------------------
(* Claims about the Keithley775A resets, readings and measurements *)

\* C27: the data-control selection the driver holds is the data-control mode
\* the instrument is in, and after read and after a reading of gate time,
\* delay time or a trigger level the instrument is in the mode asked for.
C27_DataControlInStep ==
    /\ kdc = V("DataControl", kdevdc)
    /\ last.op = "read" => kdevdc = 0
    /\ (last.op = "get" /\ last.param \in DOMAIN KReadings) =>
          kdevdc = KReadings[last.param].dc

\* the name of the mode a mode argument denotes
ModeNamed(newval) ==
    IF newval.type = "str" THEN StrTable[newval.value] ELSE ModeNames[newval.value + 1]

\* the unit that belongs to a mode
UnitOfMode(name) ==
    CASE name \in {"frequency_A", "frequency_B", "frequency_C"} -> "Hz"
      [] name \in {"period_A", "period_average_A", "time_interval_A_to_B"} -> "s"
      [] name \in {"pulse_A", "totalize_A"} -> "1"

\* C26: a mode set that succeeds leaves the unit of its mode, one that fails
\* leaves the unit as it was and transmits nothing; a reset that succeeds
\* leaves Hz; no other call changes the unit; and a measure that returns
\* returns an integer exactly when the unit is 1.
C26_UnitFollowsMode ==
    [][calls' = calls + 1 =>
        /\ (last'.op = "set" /\ last'.param = "mode") =>
              IF last'.exc = "none" THEN kunit' = UnitOfMode(ModeNamed(arg'))
              ELSE kunit' = kunit /\ tx' = <<>>
        /\ last'.op = "reset" =>
              IF last'.exc = "none" THEN kunit' = "Hz" ELSE kunit' = kunit
        /\ last'.op \notin {"set", "reset"} => kunit' = kunit
        /\ (last'.op = "measure" /\ last'.exc = "none") =>
              (ret'.type = "int" <=> kunit' = "1")]_vars

C26_Witness ==
    /\ last = Call("measure", "none", "none")
    /\ kunit = "1"
    /\ ret = V("int", 12)
    /\ calls = 2

\* the mnemonic under which the reset command string names each parameter
ResetMnemonics ==
    [mode |-> <<"F">>, rate |-> <<"S">>, gate_time |-> <<"G">>, delay_time |-> <<"W">>,
     delay |-> <<"I">>, displayed_digits |-> <<"N">>, EOI |-> <<"K">>, srq_mask |-> <<"M">>,
     terminator |-> <<"Y">>, display_mode |-> <<"D">>, data_format |-> <<"P">>,
     totalize |-> <<"T", "O">>,
     coupling_A |-> <<"A", "C">>, attenuator_A |-> <<"A", "A">>, filter_A |-> <<"A", "F">>,
     slope_A |-> <<"A", "S">>, trigger_A |-> <<"A", "L">>,
     coupling_B |-> <<"B", "C">>, attenuator_B |-> <<"B", "A">>, filter_B |-> <<"B", "F">>,
     slope_B |-> <<"B", "S">>, trigger_B |-> <<"B", "L">>]

\* C28: a setter that succeeds transmits one command that begins with the
\* mnemonic the reset command string has for its parameter, and no two
\* parameters have the same mnemonic there.
C28_MnemonicPerParameter ==
    /\ \A p, q \in DOMAIN ResetMnemonics : ResetMnemonics[p] = ResetMnemonics[q] => p = q
    /\ (last.op = "set" /\ last.exc = "none" /\ last.param \in DOMAIN ResetMnemonics) =>
          /\ Len(tx) = 1
          /\ tx[1].kind = "send"
          /\ Len(tx[1].cmd) > Len(ResetMnemonics[last.param])
          /\ SubSeq(tx[1].cmd, 1, Len(ResetMnemonics[last.param])) = ResetMnemonics[last.param]

----------------------------------------------------------------------------
(* Claims about the Keithley775A trigger *)

\* C23: trigger first issues the trigger: TX in the trigger mode 'cmd', a GPIB
\* trigger in 'GPIB', RuntimeError and nothing in another mode; with wait_SRQ
\* it returns only on a service request whose status byte has the
\* reading-done bit (8), a request without the bit leaves it waiting, and it
\* returns once such a request is raised.
C23_TriggerWaitsForReading ==
    /\ [][/\ (pc = "ready" /\ last'.op = "trigger" /\ calls' = calls + 1) =>
                CASE last'.param = "cmd" -> last'.exc = "none" /\ tx' = <<Send(<<"T", "X">>)>>
                  [] last'.param = "GPIB" -> last'.exc = "none" /\ tx' = <<Trigger>>
                  [] OTHER -> last'.exc = "RuntimeError" /\ tx' = <<>> /\ pc' = "ready"
          /\ (pc = "ready" /\ last'.op = "trigger" /\ calls' = calls + 1
                /\ last'.exc = "none" /\ arg' = V("bool", 1)) => pc' = "wait_for_srq"
          /\ (pc = "wait_for_srq") => pc' # "ready"
          /\ (pc = "srq" /\ pc' = "ready") => (input[1] \div 8) % 2 = 1
          /\ (pc = "srq" /\ (input[1] \div 8) % 2 = 0) => pc' = "wait_for_srq"]_vars
    /\ (pc = "wait_for_srq" /\ input # <<>> /\ (input[1] \div 8) % 2 = 1) ~> (pc = "ready")

C23_Witness ==
    /\ pc = "ready"
    /\ last = Call("trigger", "GPIB", "none")
    /\ arg = V("bool", 1)
    /\ tx = <<Trigger>>
    /\ calls = 1

====
